---- MODULE Spec2Model ----
(***************************************************************************)
(* Index support functions for boxes (SP-GiST quad-4d tree) and for inet   *)
(* values (SP-GiST prefix tree, GiST range tree), and the inet selectivity *)
(* estimators, modelled as operators over small value domains.             *)
(***************************************************************************)
EXTENDS Integers, Sequences, FiniteSets, TLC

VARIABLES
    bx,     \* the walk of a leaf box down the box quad tree
    ps,     \* the box picksplit run
    ns,     \* the search check of the inet prefix tree
    gu,     \* the inet GiST union and penalty run
    tr,     \* the inet prefix tree under insertion
    se      \* the selectivity estimation run

vars == <<bx, ps, ns, gu, tr, se>>

(***************************************************************************)
(* Bounds of the model.                                                    *)
(***************************************************************************)
\* coordinates of boxes range over 0 .. MaxCoord
MaxCoord == 1
\* number of inner levels walked below the root of the box tree
MaxDepth == 2
\* number of leaf tuples handed to one pick-split call
MaxTuples == 3
\* address width of the two families (ip_maxbits is 32 and 128; the model
\* keeps the IPv6 addresses the longer ones)
V4Bits == 1
V6Bits == 2
\* number of entries on a GiST page
MaxEntries == 2
\* number of leaf tuples an SP-GiST page holds, and of values inserted
LeafCapacity == 2
MaxInserts == 4
\* number of histogram bounds, and the step 1/FractionSteps of the fractions
\* of the statistics
MaxHistogram == 2
FractionSteps == 2

Coord == 0 .. MaxCoord

(***************************************************************************)
(* Strategy numbers (access/stratnum.h).                                   *)
(***************************************************************************)
RTLeftStrategyNumber == 1
RTOverlapStrategyNumber == 3
RTRightStrategyNumber == 5
RTContainsStrategyNumber == 7
RTContainedByStrategyNumber == 8
RTBelowStrategyNumber == 10
RTAboveStrategyNumber == 11

BoxStrategies ==
    { RTLeftStrategyNumber, RTOverlapStrategyNumber, RTRightStrategyNumber,
      RTContainsStrategyNumber, RTContainedByStrategyNumber,
      RTBelowStrategyNumber, RTAboveStrategyNumber }

(***************************************************************************)
(* Floating point comparisons (utils/geo_decls.h).  Coordinates of the     *)
(* model are integers, so the tolerance of the macros is below the         *)
(* resolution of the grid and the comparisons are the exact ones.          *)
(***************************************************************************)
FPlt(A, B) == A < B
FPle(A, B) == A <= B
FPgt(A, B) == A > B
FPge(A, B) == A >= B

\* get_float8_infinity(): exceeds every coordinate
Infinity == MaxCoord + 1

(***************************************************************************)
(* BOX: two corner points, low.x <= high.x and low.y <= high.y.            *)
(***************************************************************************)
Point(x, y) == [x |-> x, y |-> y]
Box(lx, ly, hx, hy) == [low |-> Point(lx, ly), high |-> Point(hx, hy)]

Boxes ==
    { Box(lx, ly, hx, hy) : lx \in Coord, ly \in Coord, hx \in Coord, hy \in Coord }

NormalBoxes == { b \in Boxes : b.low.x <= b.high.x /\ b.low.y <= b.high.y }

Range(l, h) == [low |-> l, high |-> h]
RangeBox(l, r) == [left |-> l, right |-> r]
RectBox(rx, ry) == [range_box_x |-> rx, range_box_y |-> ry]

boxPointerToRangeBox(box) ==
    RangeBox(Range(box.low.x, box.high.x), Range(box.low.y, box.high.y))

(***************************************************************************)
(* getQuadrant: 4 bits, one per corner coordinate.                         *)
(***************************************************************************)
getQuadrantHighXBug(centroid, inBox) ==
    (IF inBox.low.x > centroid.low.x THEN 8 ELSE 0)
  + (IF inBox.high.x >= centroid.high.x THEN 4 ELSE 0)
  + (IF inBox.low.y > centroid.low.y THEN 2 ELSE 0)
  + (IF inBox.high.y > centroid.high.y THEN 1 ELSE 0)

getQuadrant(centroid, inBox) ==
    (IF inBox.low.x > centroid.low.x THEN 8 ELSE 0)
  + (IF inBox.high.x > centroid.high.x THEN 4 ELSE 0)
  + (IF inBox.low.y > centroid.low.y THEN 2 ELSE 0)
  + (IF inBox.high.y > centroid.high.y THEN 1 ELSE 0)

\* quadrant & mask, for a one-bit mask
BitAnd(quadrant, mask) == IF (quadrant \div mask) % 2 = 1 THEN mask ELSE 0

(***************************************************************************)
(* evalRangeBox / evalRectBox: bounds of a quadrant of a centroid.         *)
(***************************************************************************)
evalRangeBoxSwapped(range_box, range, half1, half2) ==
    RangeBox(
        IF half1 = 0
        THEN Range(range.low, range_box.left.high)
        ELSE Range(range_box.left.low, range.low),
        IF half2 = 0
        THEN Range(range_box.right.low, range.high)
        ELSE Range(range.high, range_box.right.high))

evalRangeBox(range_box, range, half1, half2) ==
    RangeBox(
        IF half1 = 0
        THEN Range(range_box.left.low, range.low)
        ELSE Range(range.low, range_box.left.high),
        IF half2 = 0
        THEN Range(range_box.right.low, range.high)
        ELSE Range(range.high, range_box.right.high))

evalRectBox(rect_box, centroid, quadrant) ==
    LET half1 == BitAnd(quadrant, 8)
        half2 == BitAnd(quadrant, 4)
        half3 == BitAnd(quadrant, 2)
        half4 == BitAnd(quadrant, 1)
    IN  RectBox(
            evalRangeBox(rect_box.range_box_x, centroid.left, half1, half2),
            evalRangeBox(rect_box.range_box_y, centroid.right, half3, half4))

initializeUnboundedBox ==
    RectBox(
        RangeBox(Range(-Infinity, Infinity), Range(-Infinity, Infinity)),
        RangeBox(Range(-Infinity, Infinity), Range(-Infinity, Infinity)))

(***************************************************************************)
(* Can any box of the bounded region satisfy the predicate with the query? *)
(***************************************************************************)
intersect2DLowOnly(range, range_box) ==
    FPge(range_box.left.high, range.low) /\ FPle(range_box.left.low, range.high)

intersect2D(range, range_box) ==
    FPge(range_box.right.high, range.low) /\ FPle(range_box.left.low, range.high)

intersect4D(rectangle, rect_box) ==
    /\ intersect2D(rectangle.left, rect_box.range_box_x)
    /\ intersect2D(rectangle.right, rect_box.range_box_y)

contain2D(range, range_box) ==
    FPge(range_box.right.high, range.high) /\ FPle(range_box.left.low, range.low)

contain4D(range_box, rect_box) ==
    /\ contain2D(range_box.left, rect_box.range_box_x)
    /\ contain2D(range_box.right, rect_box.range_box_y)

contained2D(range, range_box) ==
    /\ FPle(range_box.left.low, range.high)
    /\ FPge(range_box.left.high, range.low)
    /\ FPle(range_box.right.low, range.high)
    /\ FPge(range_box.right.high, range.low)

contained4D(range_box, rect_box) ==
    /\ contained2D(range_box.left, rect_box.range_box_x)
    /\ contained2D(range_box.right, rect_box.range_box_y)

isLower(range, range_box) ==
    FPlt(range_box.left.low, range.low) /\ FPlt(range_box.right.low, range.low)

isHigher(range, range_box) ==
    FPgt(range_box.left.high, range.high) /\ FPgt(range_box.right.high, range.high)

left4D(range_box, rect_box) == isLower(range_box.left, rect_box.range_box_x)
right4D(range_box, rect_box) == isHigher(range_box.left, rect_box.range_box_x)
below4D(range_box, rect_box) == isLower(range_box.right, rect_box.range_box_y)
above4D(range_box, rect_box) == isHigher(range_box.right, rect_box.range_box_y)

(***************************************************************************)
(* The box operators the leaf check calls (utils/adt/geo_ops.c).           *)
(***************************************************************************)
box_overlap(box1, box2) ==
    /\ FPle(box1.low.x, box2.high.x) /\ FPle(box2.low.x, box1.high.x)
    /\ FPle(box1.low.y, box2.high.y) /\ FPle(box2.low.y, box1.high.y)

box_contain(box1, box2) ==
    /\ FPge(box1.high.x, box2.high.x) /\ FPle(box1.low.x, box2.low.x)
    /\ FPge(box1.high.y, box2.high.y) /\ FPle(box1.low.y, box2.low.y)

box_contained(box1, box2) == box_contain(box2, box1)
box_left(box1, box2) == FPlt(box1.high.x, box2.low.x)
box_right(box1, box2) == FPgt(box1.low.x, box2.high.x)
box_below(box1, box2) == FPlt(box1.high.y, box2.low.y)
box_above(box1, box2) == FPgt(box1.low.y, box2.high.y)

\* a scan key: strategy number and argument
ScanKey(strategy, argument) == [sk_strategy |-> strategy, sk_argument |-> argument]

(***************************************************************************)
(* spg_box_quad_choose                                                     *)
(***************************************************************************)
spgMatchNode == "spgMatchNode"
spgSplitTuple == "spgSplitTuple"
\* a field the function leaves for the SP-GiST core to fill in
Unset == [unset |-> TRUE]
\* a NULL pointer
NULL == [null |-> TRUE]
\* the value of the variables of a component that is not running
Idle == [pc |-> "idle"]

spg_box_quad_choose(in) ==
    IF in.allTheSame
    THEN [resultType |-> spgMatchNode, nodeN |-> Unset, levelAdd |-> 0,
          restDatum |-> in.datum]
    ELSE [resultType |-> spgMatchNode,
          nodeN |-> getQuadrant(in.prefixDatum, in.datum),
          levelAdd |-> 1, restDatum |-> in.datum]

(***************************************************************************)
(* spg_box_quad_inner_consistent                                           *)
(***************************************************************************)
\* one pass of the switch over the strategy of a scan key
BoxInnerKey(strategy, p_query_rect, new_rect_box) ==
    CASE strategy = RTOverlapStrategyNumber ->
            [err |-> FALSE, flag |-> intersect4D(p_query_rect, new_rect_box)]
      [] strategy = RTContainsStrategyNumber ->
            [err |-> FALSE, flag |-> contain4D(p_query_rect, new_rect_box)]
      [] strategy = RTContainedByStrategyNumber ->
            [err |-> FALSE, flag |-> contained4D(p_query_rect, new_rect_box)]
      [] strategy = RTLeftStrategyNumber ->
            [err |-> FALSE, flag |-> left4D(p_query_rect, new_rect_box)]
      [] strategy = RTRightStrategyNumber ->
            [err |-> FALSE, flag |-> right4D(p_query_rect, new_rect_box)]
      [] strategy = RTAboveStrategyNumber ->
            [err |-> FALSE, flag |-> above4D(p_query_rect, new_rect_box)]
      [] strategy = RTBelowStrategyNumber ->
            [err |-> FALSE, flag |-> below4D(p_query_rect, new_rect_box)]
      [] OTHER -> [err |-> TRUE, flag |-> TRUE]

\* The outcome of a loop "for (i = 0; flag && i < nkeys; i++)" whose pass i
\* yields results[i]: that of the first pass that clears the flag or raises
\* an error, which ends the loop; flag set when every pass keeps it.
FirstStop(results) ==
    LET stops == { i \in 1 .. Len(results) : results[i].err \/ ~results[i].flag }
    IN  IF stops = {}
        THEN [err |-> FALSE, flag |-> TRUE]
        ELSE results[CHOOSE i \in stops : \A j \in stops : i <= j]

\* the loop over the scan keys for one quadrant
BoxInnerKeys(scankeys, new_rect_box) ==
    FirstStop([i \in 1 .. Len(scankeys) |->
                  BoxInnerKey(scankeys[i].sk_strategy,
                              boxPointerToRangeBox(scankeys[i].sk_argument),
                              new_rect_box)])

\* all but the last node
AllNodeNumbersButLast(nNodes) == [i \in 1 .. nNodes - 1 |-> i - 1]

\* "for (i = 0; i < in->nNodes; i++) out->nodeNumbers[i] = i;", the loop
\* of the inner checks for an all-the-same node
AllNodeNumbers(nNodes) == [i \in 1 .. nNodes |-> i - 1]

spg_box_quad_inner_consistent(in) ==
    IF in.allTheSame
    THEN [error |-> FALSE,
          nodeNumbers |-> AllNodeNumbers(in.nNodes),
          traversalValues |-> << >>]
    ELSE LET rect_box == IF in.traversalValue # NULL
                         THEN in.traversalValue
                         ELSE initializeUnboundedBox
             rectangle_centroid == boxPointerToRangeBox(in.prefixDatum)
             \* per quadrant: the region computed for it and the outcome of
             \* the loop over the scan keys
             new_rect_box(quadrant) ==
                 evalRectBox(rect_box, rectangle_centroid, quadrant)
             r(quadrant) == BoxInnerKeys(in.scankeys, new_rect_box(quadrant))
             approved(quadrant) == r(quadrant).flag
             \* the approved quadrants, in the order the loop meets them
             nodeNumbers == SelectSeq([i \in 1 .. in.nNodes |-> i - 1], approved)
         IN  [error |-> \E quadrant \in 0 .. in.nNodes - 1 : r(quadrant).err,
              nodeNumbers |-> nodeNumbers,
              traversalValues |-> [i \in 1 .. Len(nodeNumbers) |->
                                      new_rect_box(nodeNumbers[i])]]

(***************************************************************************)
(* spg_box_quad_leaf_consistent                                            *)
(***************************************************************************)
BoxLeafKey(strategy, leafBox, keyDatum) ==
    CASE strategy = RTOverlapStrategyNumber ->
            [err |-> FALSE, flag |-> box_overlap(leafBox, keyDatum)]
      [] strategy = RTContainsStrategyNumber ->
            [err |-> FALSE, flag |-> box_contain(leafBox, keyDatum)]
      [] strategy = RTContainedByStrategyNumber ->
            [err |-> FALSE, flag |-> box_contained(leafBox, keyDatum)]
      [] strategy = RTLeftStrategyNumber ->
            [err |-> FALSE, flag |-> box_left(leafBox, keyDatum)]
      [] strategy = RTRightStrategyNumber ->
            [err |-> FALSE, flag |-> box_right(leafBox, keyDatum)]
      [] strategy = RTAboveStrategyNumber ->
            [err |-> FALSE, flag |-> box_above(leafBox, keyDatum)]
      [] strategy = RTBelowStrategyNumber ->
            [err |-> FALSE, flag |-> box_below(leafBox, keyDatum)]
      [] OTHER -> [err |-> TRUE, flag |-> TRUE]

BoxLeafKeys(scankeys, leafBox) ==
    FirstStop([i \in 1 .. Len(scankeys) |->
                  BoxLeafKey(scankeys[i].sk_strategy, leafBox, scankeys[i].sk_argument)])

spg_box_quad_leaf_consistent(in) ==
    LET r == BoxLeafKeys(in.scankeys, in.leafDatum)
    IN  [error |-> r.err, result |-> r.flag, recheck |-> FALSE,
         leafValue |-> in.leafDatum]

\* the elements of a sequence
SeqRange(s) == { s[i] : i \in 1 .. Len(s) }

(***************************************************************************)
(* The walk of one leaf box down the box tree: the box is stored below a   *)
(* chain of inner nodes; a search with one scan key visits each of them    *)
(* with the traversal value its parent produced.                           *)
(***************************************************************************)
BoxQueries == { << ScanKey(s, q) >> : s \in BoxStrategies, q \in NormalBoxes }

BoxInit ==
    /\ bx \in { [pc |-> "walk", leafBox |-> b, scankeys |-> k,
                 traversalValue |-> NULL, depth |-> 0,
                 parent |-> initializeUnboundedBox, centroid |-> b, nodeN |-> 0,
                 nodeNumbers |-> << >>, error |-> FALSE, leafResult |-> FALSE] :
                b \in NormalBoxes, k \in BoxQueries }
    /\ ps = Idle /\ ns = Idle /\ gu = Idle /\ tr = Idle /\ se = Idle

\* The search reaches an inner node with centroid c on the path of the leaf
\* box and runs the inner check on it; the leaf box was put by the choose
\* function into one of its quadrants, the leaf check is run on the leaf box,
\* and the walk goes on below that quadrant with the traversal value the
\* inner check computes for it.
BoxDescend(c) ==
    /\ bx.pc = "walk"
    /\ bx.depth < MaxDepth
    /\ LET in == [allTheSame |-> FALSE, traversalValue |-> bx.traversalValue,
                  prefixDatum |-> c, nNodes |-> 16, scankeys |-> bx.scankeys]
           out == spg_box_quad_inner_consistent(in)
           choice == spg_box_quad_choose(
                         [allTheSame |-> FALSE, datum |-> bx.leafBox, prefixDatum |-> c])
           leaf == spg_box_quad_leaf_consistent(
                       [leafDatum |-> bx.leafBox, scankeys |-> bx.scankeys])
           rect_box == IF bx.traversalValue # NULL THEN bx.traversalValue
                       ELSE initializeUnboundedBox
       IN  bx' = [bx EXCEPT
                    !.depth = @ + 1,
                    !.parent = rect_box,
                    !.centroid = c,
                    !.nodeN = choice.nodeN,
                    !.nodeNumbers = out.nodeNumbers,
                    !.error = out.error \/ leaf.error,
                    !.leafResult = leaf.result,
                    !.traversalValue =
                        evalRectBox(rect_box, boxPointerToRangeBox(c), choice.nodeN)]
    /\ UNCHANGED <<ps, ns, gu, tr, se>>

BoxNext == \E c \in NormalBoxes : BoxDescend(c)

SpecBox == BoxInit /\ [][BoxNext]_vars

\* the 4-D point of a box lies in a bounded region
RegionContains(rect_box, box) ==
    /\ rect_box.range_box_x.left.low <= box.low.x
    /\ box.low.x <= rect_box.range_box_x.left.high
    /\ rect_box.range_box_x.right.low <= box.high.x
    /\ box.high.x <= rect_box.range_box_x.right.high
    /\ rect_box.range_box_y.left.low <= box.low.y
    /\ box.low.y <= rect_box.range_box_y.left.high
    /\ rect_box.range_box_y.right.low <= box.high.y
    /\ box.high.y <= rect_box.range_box_y.right.high

\* bit of a quadrant number: 3 = low.x, 2 = high.x, 1 = low.y, 0 = high.y
QuadrantBit(quadrant, bit) == (quadrant \div (2 ^ bit)) % 2

\* C1: whenever the leaf check accepts the leaf box for the scan key, the
\* inner check of the node just visited, run with the region accumulated
\* along the path and the node's centroid, returns the quadrant the leaf box
\* is stored in (no false negatives).
C1_BoxSearchSound ==
    (bx.pc = "walk" /\ bx.depth > 0 /\ ~bx.error /\ bx.leafResult)
        => bx.nodeN \in SeqRange(bx.nodeNumbers)

\* C1 witness: below the root, with a bounded region, the leaf check accepts
\* the leaf box while the inner check prunes some other quadrant.
C1_Witness ==
    /\ bx.pc = "walk" /\ bx.depth = 2 /\ ~bx.error /\ bx.leafResult
    /\ bx.parent # initializeUnboundedBox
    /\ bx.nodeN \in SeqRange(bx.nodeNumbers)
    /\ Len(bx.nodeNumbers) < 16

\* one projection of the region of a quadrant: a bit of 0 replaces the upper
\* bound by the centroid coordinate, a bit of 1 the lower bound, and the
\* other bound is the parent's
TightenedAs(new, old, coordinate, bit) ==
    IF bit = 0
    THEN new.high = coordinate /\ new.low = old.low
    ELSE new.low = coordinate /\ new.high = old.high

\* C7: the region evalRectBox computes for the quadrant of the leaf box
\* still contains the leaf box when the parent region does, and per
\* projection only the bound selected by the quadrant bit is replaced, by
\* the centroid coordinate.
C7_TightenedRegionContainsBox ==
    (bx.pc = "walk" /\ bx.depth > 0 /\ RegionContains(bx.parent, bx.leafBox))
        => /\ RegionContains(bx.traversalValue, bx.leafBox)
           /\ TightenedAs(bx.traversalValue.range_box_x.left,
                          bx.parent.range_box_x.left,
                          bx.centroid.low.x, QuadrantBit(bx.nodeN, 3))
           /\ TightenedAs(bx.traversalValue.range_box_x.right,
                          bx.parent.range_box_x.right,
                          bx.centroid.high.x, QuadrantBit(bx.nodeN, 2))
           /\ TightenedAs(bx.traversalValue.range_box_y.left,
                          bx.parent.range_box_y.left,
                          bx.centroid.low.y, QuadrantBit(bx.nodeN, 1))
           /\ TightenedAs(bx.traversalValue.range_box_y.right,
                          bx.parent.range_box_y.right,
                          bx.centroid.high.y, QuadrantBit(bx.nodeN, 0))

\* C7 witness: a second descent, from a parent region that has finite bounds
\* and contains the leaf box, into a quadrant with bits of both values.
C7_Witness ==
    /\ bx.pc = "walk" /\ bx.depth = 2
    /\ bx.parent # initializeUnboundedBox
    /\ RegionContains(bx.parent, bx.leafBox)
    /\ bx.nodeN \notin {0, 15}
    /\ RegionContains(bx.traversalValue, bx.leafBox)

\* C9: the node number the choose function returns on a node that is not
\* all-the-same is in 0..15 and its four bits are the four corner
\* comparisons of the box with the centroid; a box equal to the centroid
\* gets quadrant 0.
C9_QuadrantBits ==
    (bx.pc = "walk" /\ bx.depth > 0)
        => /\ bx.nodeN \in 0 .. 15
           /\ (QuadrantBit(bx.nodeN, 3) = 1) <=> (bx.leafBox.low.x > bx.centroid.low.x)
           /\ (QuadrantBit(bx.nodeN, 2) = 1) <=> (bx.leafBox.high.x > bx.centroid.high.x)
           /\ (QuadrantBit(bx.nodeN, 1) = 1) <=> (bx.leafBox.low.y > bx.centroid.low.y)
           /\ (QuadrantBit(bx.nodeN, 0) = 1) <=> (bx.leafBox.high.y > bx.centroid.high.y)
           /\ (bx.leafBox = bx.centroid => bx.nodeN = 0)

\* C9 witness: a box above the centroid on three corner coordinates and not
\* on the fourth is put into quadrant 13.
C9_Witness ==
    /\ bx.pc = "walk" /\ bx.depth > 0
    /\ bx.leafBox.low.x > bx.centroid.low.x
    /\ bx.leafBox.high.x > bx.centroid.high.x
    /\ bx.leafBox.low.y = bx.centroid.low.y
    /\ bx.leafBox.high.y > bx.centroid.high.y
    /\ bx.nodeN = 13

(***************************************************************************)
(* spg_box_quad_picksplit                                                  *)
(***************************************************************************)

\* a comparator with the order inverted
compareDoublesInverted(x, y) ==
    IF x = y THEN 0 ELSE IF x > y THEN -1 ELSE 1

compareDoubles(x, y) ==
    IF x = y THEN 0 ELSE IF x > y THEN 1 ELSE -1

\* qsort(base, nmemb, sizeof(double), compareDoubles): the elements are put
\* one by one after the last element that does not compare greater
RECURSIVE qsort(_)
qsort(base) ==
    IF Len(base) <= 1 THEN base
    ELSE LET sorted == qsort(SubSeq(base, 1, Len(base) - 1))
             x == base[Len(base)]
             notGreater == { i \in 1 .. Len(sorted) : compareDoubles(sorted[i], x) <= 0 }
             pos == IF notGreater = {} THEN 0
                    ELSE CHOOSE i \in notGreater : \A j \in notGreater : j <= i
         IN  SubSeq(sorted, 1, pos) \o << x >> \o SubSeq(sorted, pos + 1, Len(sorted))

\* element i counted from 1
AtOneBased(a, i) == a[i]

\* arrays are 0-based in the source: a[i] of the source is At(a, i)
At(a, i) == a[i + 1]

spg_box_quad_picksplit(in) ==
    LET lowXs  == qsort([i \in 1 .. in.nTuples |-> in.datums[i].low.x])
        highXs == qsort([i \in 1 .. in.nTuples |-> in.datums[i].high.x])
        lowYs  == qsort([i \in 1 .. in.nTuples |-> in.datums[i].low.y])
        highYs == qsort([i \in 1 .. in.nTuples |-> in.datums[i].high.y])
        median == in.nTuples \div 2
        centroid == Box(At(lowXs, median), At(lowYs, median),
                        At(highXs, median), At(highYs, median))
    IN  [hasPrefix |-> TRUE,
         prefixDatum |-> centroid,
         nNodes |-> 16,
         nodeLabels |-> NULL,
         leafTupleDatums |-> in.datums,
         mapTuplesToNodes |-> [i \in 1 .. in.nTuples |-> getQuadrant(centroid, in.datums[i])]]

\* A leaf page collects boxes; when it overflows the core hands all its
\* tuples to the pick-split function.
PickInit ==
    /\ ps = [pc |-> "collect", datums |-> << >>, out |-> NULL]
    /\ bx = Idle /\ ns = Idle /\ gu = Idle /\ tr = Idle /\ se = Idle

PickAddTuple(box) ==
    /\ ps.pc = "collect"
    /\ Len(ps.datums) < MaxTuples
    /\ ps' = [ps EXCEPT !.datums = Append(@, box)]
    /\ UNCHANGED <<bx, ns, gu, tr, se>>

PickSplit ==
    /\ ps.pc = "collect"
    /\ Len(ps.datums) >= 1
    /\ ps' = [ps EXCEPT
                !.pc = "split",
                !.out = spg_box_quad_picksplit(
                            [nTuples |-> Len(ps.datums), datums |-> ps.datums])]
    /\ UNCHANGED <<bx, ns, gu, tr, se>>

PickNext ==
    \/ \E box \in NormalBoxes : PickAddTuple(box)
    \/ PickSplit

SpecPick == PickInit /\ [][PickNext]_vars

\* v is the element at 0-based index k of the ascending order of the values
\* of a: at most k values are smaller and more than k are not greater
IsOrderStatistic(v, a, k) ==
    /\ \E i \in 1 .. Len(a) : a[i] = v
    /\ Cardinality({ i \in 1 .. Len(a) : a[i] < v }) <= k
    /\ Cardinality({ i \in 1 .. Len(a) : a[i] <= v }) > k

\* C8: each of the four centroid coordinates pick-split chooses is the
\* element at index floor(n/2) of the ascending order of that coordinate
\* over the n input boxes, independently per coordinate, and every input box
\* is mapped to its quadrant against that centroid.
C8_PickSplitMedians ==
    ps.pc = "split" =>
        LET n == Len(ps.datums)
            c == ps.out.prefixDatum
        IN  /\ IsOrderStatistic(c.low.x, [i \in 1 .. n |-> ps.datums[i].low.x], n \div 2)
            /\ IsOrderStatistic(c.high.x, [i \in 1 .. n |-> ps.datums[i].high.x], n \div 2)
            /\ IsOrderStatistic(c.low.y, [i \in 1 .. n |-> ps.datums[i].low.y], n \div 2)
            /\ IsOrderStatistic(c.high.y, [i \in 1 .. n |-> ps.datums[i].high.y], n \div 2)
            /\ Len(ps.out.mapTuplesToNodes) = n
            /\ \A i \in 1 .. n :
                   ps.out.mapTuplesToNodes[i] = getQuadrant(c, ps.datums[i])

\* C8 witness: a split of as many boxes as a page holds, given in an order
\* that is not ascending, whose centroid is none of the input boxes and
\* which spreads the boxes over more than one quadrant.
C8_Witness ==
    /\ ps.pc = "split"
    /\ Len(ps.datums) = MaxTuples
    /\ ps.datums[1].low.x > ps.datums[2].low.x
    /\ \A i \in 1 .. Len(ps.datums) : ps.datums[i] # ps.out.prefixDatum
    /\ Cardinality({ ps.out.mapTuplesToNodes[i] : i \in 1 .. Len(ps.datums) }) > 1

(***************************************************************************)
(* Network addresses (utils/inet.h).  An address is the sequence of its    *)
(* bits, most significant first; ip_addr(x)[n / 8] & 1 << (7 - n % 8) is   *)
(* bit n of it.                                                            *)
(***************************************************************************)
AF_INET == 2
PGSQL_AF_INET == AF_INET + 0
PGSQL_AF_INET6 == AF_INET + 1

ip_family(inetptr) == inetptr.family
ip_bits(inetptr) == inetptr.bits
ip_addr(inetptr) == inetptr.ipaddr
ip_maxbits(inetptr) == IF ip_family(inetptr) = PGSQL_AF_INET THEN V4Bits ELSE V6Bits

Inet(family, bits, ipaddr) == [family |-> family, bits |-> bits, ipaddr |-> ipaddr]

FamilyBits(family) == IF family = PGSQL_AF_INET THEN V4Bits ELSE V6Bits

\* every inet value: any address, any prefix length up to the family's width
InetValues ==
    { Inet(f, b, a) : f \in {PGSQL_AF_INET}, b \in 0 .. V4Bits,
                      a \in [1 .. V4Bits -> {0, 1}] }
    \cup
    { Inet(f, b, a) : f \in {PGSQL_AF_INET6}, b \in 0 .. V6Bits,
                      a \in [1 .. V6Bits -> {0, 1}] }

\* bit n of an address, n counted from 0
AddrBit(addr, n) == addr[n + 1]

Min(a, b) == IF a < b THEN a ELSE b

\* bitncmp(l, r, n): compares the first n bits; < 0, 0 or > 0
bitncmp(l, r, n) ==
    LET diff == { i \in 1 .. n : l[i] # r[i] }
    IN  IF diff = {} THEN 0
        ELSE LET first == CHOOSE i \in diff : \A j \in diff : i <= j
             IN  IF l[first] < r[first] THEN -1 ELSE 1

\* bitncommon(l, r, n): number of leading bits, at most n, l and r share
bitncommon(l, r, n) ==
    LET diff == { i \in 1 .. n : l[i] # r[i] }
    IN  IF diff = {} THEN n
        ELSE (CHOOSE i \in diff : \A j \in diff : i <= j) - 1

\* cidr_set_masklen_internal(src, bits): the network of src with the given
\* prefix length, host bits cleared
cidr_set_masklen_internal(src, bits) ==
    Inet(ip_family(src), bits,
         [i \in 1 .. Len(ip_addr(src)) |-> IF i <= bits THEN ip_addr(src)[i] ELSE 0])

(***************************************************************************)
(* Strategy numbers of the network operators (access/stratnum.h).          *)
(***************************************************************************)
RTEqualStrategyNumber == 18
RTNotEqualStrategyNumber == 19
RTLessStrategyNumber == 20
RTLessEqualStrategyNumber == 21
RTGreaterStrategyNumber == 22
RTGreaterEqualStrategyNumber == 23
RTSubStrategyNumber == 24
RTSubEqualStrategyNumber == 25
RTSuperStrategyNumber == 26
RTSuperEqualStrategyNumber == 27

InetStrategies ==
    { RTOverlapStrategyNumber, RTEqualStrategyNumber, RTNotEqualStrategyNumber,
      RTLessStrategyNumber, RTLessEqualStrategyNumber, RTGreaterStrategyNumber,
      RTGreaterEqualStrategyNumber, RTSubStrategyNumber, RTSubEqualStrategyNumber,
      RTSuperStrategyNumber, RTSuperEqualStrategyNumber }

\* bitmap & mask on four-bit node bitmaps
BitmapAnd(bitmap, mask) ==
    LET bit(n) == IF (bitmap \div (2 ^ n)) % 2 = 1 /\ (mask \div (2 ^ n)) % 2 = 1
                  THEN 2 ^ n ELSE 0
    IN  bit(0) + bit(1) + bit(2) + bit(3)

\* bitmap & 1 << i
BitmapHas(bitmap, i) == (bitmap \div (2 ^ i)) % 2 = 1

(***************************************************************************)
(* inet_spg_node_number                                                    *)
(***************************************************************************)
\* with the second test taken for prefix lengths from commonbits on
inet_spg_node_numberInclusive(orig, commonbits) ==
    (IF commonbits < ip_maxbits(orig) /\ AddrBit(ip_addr(orig), commonbits) = 1
     THEN 1 ELSE 0)
    + (IF commonbits <= ip_bits(orig) THEN 2 ELSE 0)

inet_spg_node_number(orig, commonbits) ==
    (IF commonbits < ip_maxbits(orig) /\ AddrBit(ip_addr(orig), commonbits) = 1
     THEN 1 ELSE 0)
    + (IF commonbits < ip_bits(orig) THEN 2 ELSE 0)

(***************************************************************************)
(* inet_spg_consistent_bitmap: the checks made for one scan key.  Each     *)
(* returns the bitmap after the check.                                     *)
(***************************************************************************)
IsLessStrategy(strategy) ==
    strategy \in {RTLessStrategyNumber, RTLessEqualStrategyNumber}

IsGreaterStrategy(strategy) ==
    strategy \in {RTGreaterEqualStrategyNumber, RTGreaterStrategyNumber}

\* Check 0: IP family, for an argument of the other family
InetCheck0(strategy, argument, prefix, bitmap) ==
    IF IsLessStrategy(strategy)
    THEN IF ip_family(argument) < ip_family(prefix) THEN 0 ELSE bitmap
    ELSE IF IsGreaterStrategy(strategy)
    THEN IF ip_family(argument) > ip_family(prefix) THEN 0 ELSE bitmap
    ELSE IF strategy = RTNotEqualStrategyNumber THEN bitmap
    ELSE 0

\* Check 1 with << treated as <<=
InetCheck1SubAsSubEqual(strategy, commonbits, argument, bitmap) ==
    CASE strategy \in {RTSubStrategyNumber, RTSubEqualStrategyNumber} ->
            IF commonbits < ip_bits(argument) THEN BitmapAnd(bitmap, 4 + 8) ELSE bitmap
      [] strategy = RTSuperStrategyNumber ->
            IF commonbits = ip_bits(argument) - 1 THEN BitmapAnd(bitmap, 1 + 2)
            ELSE IF commonbits >= ip_bits(argument) THEN 0
            ELSE bitmap
      [] strategy = RTSuperEqualStrategyNumber ->
            IF commonbits = ip_bits(argument) THEN BitmapAnd(bitmap, 1 + 2)
            ELSE IF commonbits > ip_bits(argument) THEN 0
            ELSE bitmap
      [] strategy = RTEqualStrategyNumber ->
            IF commonbits < ip_bits(argument) THEN BitmapAnd(bitmap, 4 + 8)
            ELSE IF commonbits = ip_bits(argument) THEN BitmapAnd(bitmap, 1 + 2)
            ELSE 0
      [] OTHER -> bitmap

\* Check 1: network bit count
InetCheck1(strategy, commonbits, argument, bitmap) ==
    CASE strategy = RTSubStrategyNumber ->
            IF commonbits <= ip_bits(argument) THEN BitmapAnd(bitmap, 4 + 8) ELSE bitmap
      [] strategy = RTSubEqualStrategyNumber ->
            IF commonbits < ip_bits(argument) THEN BitmapAnd(bitmap, 4 + 8) ELSE bitmap
      [] strategy = RTSuperStrategyNumber ->
            IF commonbits = ip_bits(argument) - 1 THEN BitmapAnd(bitmap, 1 + 2)
            ELSE IF commonbits >= ip_bits(argument) THEN 0
            ELSE bitmap
      [] strategy = RTSuperEqualStrategyNumber ->
            IF commonbits = ip_bits(argument) THEN BitmapAnd(bitmap, 1 + 2)
            ELSE IF commonbits > ip_bits(argument) THEN 0
            ELSE bitmap
      [] strategy = RTEqualStrategyNumber ->
            IF commonbits < ip_bits(argument) THEN BitmapAnd(bitmap, 4 + 8)
            ELSE IF commonbits = ip_bits(argument) THEN BitmapAnd(bitmap, 1 + 2)
            ELSE 0
      [] OTHER -> bitmap

\* Check 2: common network bits, when they differ (order # 0)
InetCheck2(strategy, order, bitmap) ==
    IF IsLessStrategy(strategy)
    THEN IF order > 0 THEN 0 ELSE bitmap
    ELSE IF IsGreaterStrategy(strategy)
    THEN IF order < 0 THEN 0 ELSE bitmap
    ELSE IF strategy = RTNotEqualStrategyNumber THEN bitmap
    ELSE 0

\* the branch of the other value of the bit is kept
InetCheck3Swapped(strategy, nextbit, bitmap) ==
    IF IsLessStrategy(strategy)
    THEN IF nextbit = 0 THEN BitmapAnd(bitmap, 1 + 2 + 8) ELSE bitmap
    ELSE IF IsGreaterStrategy(strategy)
    THEN IF nextbit # 0 THEN BitmapAnd(bitmap, 1 + 2 + 4) ELSE bitmap
    ELSE IF strategy = RTNotEqualStrategyNumber THEN bitmap
    ELSE IF nextbit = 0 THEN BitmapAnd(bitmap, 1 + 2 + 8)
    ELSE BitmapAnd(bitmap, 1 + 2 + 4)

\* Check 3: next network bit of the argument
InetCheck3(strategy, nextbit, bitmap) ==
    IF IsLessStrategy(strategy)
    THEN IF nextbit = 0 THEN BitmapAnd(bitmap, 1 + 2 + 4) ELSE bitmap
    ELSE IF IsGreaterStrategy(strategy)
    THEN IF nextbit # 0 THEN BitmapAnd(bitmap, 1 + 2 + 8) ELSE bitmap
    ELSE IF strategy = RTNotEqualStrategyNumber THEN bitmap
    ELSE IF nextbit = 0 THEN BitmapAnd(bitmap, 1 + 2 + 4)
    ELSE BitmapAnd(bitmap, 1 + 2 + 8)

\* Check 4 left out
InetCheck4Skipped(strategy, commonbits, argument, bitmap) == bitmap

\* Check 4: network bit count again, for the basic comparison strategies
InetCheck4(strategy, commonbits, argument, bitmap) ==
    IF IsLessStrategy(strategy)
    THEN IF commonbits = ip_bits(argument) THEN BitmapAnd(bitmap, 1 + 2)
         ELSE IF commonbits > ip_bits(argument) THEN 0
         ELSE bitmap
    ELSE IF IsGreaterStrategy(strategy)
    THEN IF commonbits < ip_bits(argument) THEN BitmapAnd(bitmap, 4 + 8) ELSE bitmap
    ELSE bitmap

\* Check 5: next host bit of the argument
InetCheck5(strategy, nextbit, bitmap) ==
    IF IsLessStrategy(strategy)
    THEN IF nextbit = 0 THEN BitmapAnd(bitmap, 1 + 4 + 8) ELSE bitmap
    ELSE IF IsGreaterStrategy(strategy)
    THEN IF nextbit # 0 THEN BitmapAnd(bitmap, 2 + 4 + 8) ELSE bitmap
    ELSE IF strategy = RTNotEqualStrategyNumber THEN bitmap
    ELSE IF nextbit = 0 THEN BitmapAnd(bitmap, 1 + 4 + 8)
    ELSE BitmapAnd(bitmap, 2 + 4 + 8)

\* Check 6: whole address, on a leaf
InetCheck6(strategy, order, bitmap) ==
    CASE strategy = RTLessStrategyNumber -> IF order >= 0 THEN 0 ELSE bitmap
      [] strategy = RTLessEqualStrategyNumber -> IF order > 0 THEN 0 ELSE bitmap
      [] strategy = RTEqualStrategyNumber -> IF order # 0 THEN 0 ELSE bitmap
      [] strategy = RTGreaterEqualStrategyNumber -> IF order < 0 THEN 0 ELSE bitmap
      [] strategy = RTGreaterStrategyNumber -> IF order <= 0 THEN 0 ELSE bitmap
      [] strategy = RTNotEqualStrategyNumber -> IF order = 0 THEN 0 ELSE bitmap
      [] OTHER -> bitmap

\* one iteration of the loop over the scan keys: the bitmap after the key
InetKeyCheck(prefix, key, leaf, bitmap) ==
    LET argument == key.sk_argument
        strategy == key.sk_strategy
        commonbits == ip_bits(prefix)
    IN
    IF ip_family(argument) # ip_family(prefix)
    THEN InetCheck0(strategy, argument, prefix, bitmap)
    ELSE
    LET b1 == InetCheck1(strategy, commonbits, argument, bitmap)
        order == bitncmp(ip_addr(prefix), ip_addr(argument),
                         Min(commonbits, ip_bits(argument)))
    IN
    IF b1 = 0 THEN 0
    ELSE IF order # 0 THEN InetCheck2(strategy, order, b1)
    ELSE
    LET b3 == IF BitmapAnd(b1, 4 + 8) # 0 /\ commonbits < ip_bits(argument)
              THEN InetCheck3(strategy, AddrBit(ip_addr(argument), commonbits), b1)
              ELSE b1
    IN
    IF b3 = 0 THEN 0
    ELSE IF strategy < RTEqualStrategyNumber \/ strategy > RTGreaterEqualStrategyNumber
    THEN b3
    ELSE
    LET b4 == InetCheck4(strategy, commonbits, argument, b3)
    IN
    IF b4 = 0 THEN 0
    ELSE IF commonbits # ip_bits(argument) THEN b4
    ELSE
    LET b5 == IF ~leaf /\ BitmapAnd(b4, 1 + 2) # 0 /\ commonbits < ip_maxbits(argument)
              THEN InetCheck5(strategy, AddrBit(ip_addr(argument), commonbits), b4)
              ELSE b4
    IN
    IF b5 = 0 THEN 0
    ELSE IF leaf
    THEN InetCheck6(strategy,
                    bitncmp(ip_addr(prefix), ip_addr(argument), ip_maxbits(prefix)),
                    b5)
    ELSE b5

\* the loop over the scan keys from a given key on: it is left as soon as
\* the bitmap is 0
RECURSIVE InetKeyLoop(_, _, _, _)
InetKeyLoop(prefix, scankeys, leaf, bitmap) ==
    IF scankeys = << >> \/ bitmap = 0 THEN bitmap
    ELSE InetKeyLoop(prefix, Tail(scankeys), leaf,
                     InetKeyCheck(prefix, Head(scankeys), leaf, bitmap))

inet_spg_consistent_bitmap(prefix, scankeys, leaf) ==
    InetKeyLoop(prefix, scankeys, leaf, IF leaf THEN 1 ELSE 1 + 2 + 4 + 8)

(***************************************************************************)
(* inet_spg_choose                                                         *)
(***************************************************************************)
\* the common bits are counted up to the length of the prefix
InetSplitCommonBitsOfPrefix(prefix, orig) ==
    bitncommon(ip_addr(prefix), ip_addr(orig), ip_bits(prefix))

\* the length of the prefix of the upper tuple of a split
InetSplitCommonBits(prefix, orig) ==
    bitncommon(ip_addr(prefix), ip_addr(orig), ip_bits(orig))

inet_spg_choose(in) ==
    LET orig == in.datum
        prefix == in.prefixDatum
        commonbits == ip_bits(prefix)
    IN
    IF ~in.hasPrefix
    THEN [resultType |-> spgMatchNode,
          asserts |-> ~in.allTheSame,
          nodeN |-> IF ip_family(orig) = PGSQL_AF_INET THEN 0 ELSE 1,
          restDatum |-> orig]
    ELSE IF ip_family(orig) # ip_family(prefix)
    THEN [resultType |-> spgSplitTuple,
          asserts |-> TRUE,
          prefixHasPrefix |-> FALSE,
          prefixPrefixDatum |-> NULL,
          prefixNNodes |-> 2,
          prefixNodeLabels |-> NULL,
          postfixNodeN |-> IF ip_family(prefix) = PGSQL_AF_INET THEN 0 ELSE 1,
          postfixHasPrefix |-> TRUE,
          postfixPrefixDatum |-> prefix]
    ELSE IF in.allTheSame
    THEN [resultType |-> spgMatchNode,
          asserts |-> TRUE,
          nodeN |-> Unset,
          restDatum |-> orig]
    ELSE IF ip_bits(orig) < commonbits
            \/ bitncmp(ip_addr(prefix), ip_addr(orig), commonbits) # 0
    THEN LET newbits == InetSplitCommonBits(prefix, orig)
         IN  [resultType |-> spgSplitTuple,
              asserts |-> TRUE,
              prefixHasPrefix |-> TRUE,
              prefixPrefixDatum |-> cidr_set_masklen_internal(orig, newbits),
              prefixNNodes |-> 4,
              prefixNodeLabels |-> NULL,
              postfixNodeN |-> inet_spg_node_number(prefix, newbits),
              postfixHasPrefix |-> TRUE,
              postfixPrefixDatum |-> prefix]
    ELSE [resultType |-> spgMatchNode,
          asserts |-> TRUE,
          nodeN |-> inet_spg_node_number(orig, commonbits),
          restDatum |-> orig]

(***************************************************************************)
(* inet_spg_inner_consistent and inet_spg_leaf_consistent                  *)
(***************************************************************************)
\* one iteration of the key loop of a node without prefix
InetFamilyKeyCheck(key, bitmap) ==
    LET strategy == key.sk_strategy
        argument == key.sk_argument
    IN  IF IsLessStrategy(strategy) /\ ip_family(argument) = PGSQL_AF_INET
        THEN BitmapAnd(bitmap, 1)
        ELSE IF IsGreaterStrategy(strategy) /\ ip_family(argument) = PGSQL_AF_INET6
        THEN BitmapAnd(bitmap, 2)
        ELSE bitmap

RECURSIVE InetFamilyKeyLoop(_, _)
InetFamilyKeyLoop(scankeys, bitmap) ==
    IF scankeys = << >> THEN bitmap
    ELSE InetFamilyKeyLoop(Tail(scankeys), InetFamilyKeyCheck(Head(scankeys), bitmap))

\* the node numbers of the bits set in the bitmap, ascending
InetNodeNumbers(bitmap, nNodes) ==
    LET set(i) == BitmapHas(bitmap, i)
    IN  SelectSeq([i \in 1 .. nNodes |-> i - 1], set)

inet_spg_inner_consistent(in) ==
    IF in.allTheSame
    THEN [asserts |-> in.hasPrefix,
          nodeNumbers |-> AllNodeNumbers(in.nNodes)]
    ELSE IF ~in.hasPrefix
    THEN [asserts |-> in.nNodes = 2,
          nodeNumbers |-> InetNodeNumbers(InetFamilyKeyLoop(in.scankeys, 1 + 2),
                                          in.nNodes)]
    ELSE [asserts |-> in.nNodes = 4,
          nodeNumbers |-> InetNodeNumbers(
                              inet_spg_consistent_bitmap(in.prefixDatum, in.scankeys, FALSE),
                              in.nNodes)]

inet_spg_leaf_consistent(in) ==
    [recheck |-> FALSE,
     leafValue |-> in.leafDatum,
     result |-> inet_spg_consistent_bitmap(in.leafDatum, in.scankeys, TRUE) # 0]

(***************************************************************************)
(* Search of the network prefix tree: a leaf value below an inner node,    *)
(* and the two consistency checks run on the same scan keys.  Both checks  *)
(* go through the keys in order and carry nothing but the bitmap from one  *)
(* key to the next, so the state holds the two bitmaps reached on the keys *)
(* given so far and a step is the iteration both loops make for one more   *)
(* key.                                                                    *)
(***************************************************************************)
InetScanKeys == { ScanKey(s, a) : s \in InetStrategies, a \in InetValues }

\* the inner nodes a value can be stored under, and the child it is put in
InetPlacements ==
    { [leafDatum |-> v, hasPrefix |-> TRUE,
       prefixDatum |-> cidr_set_masklen_internal(v, c), nNodes |-> 4] :
          v \in InetValues, c \in 0 .. V6Bits }
    \cup
    { [leafDatum |-> v, hasPrefix |-> FALSE, prefixDatum |-> NULL, nNodes |-> 2] :
          v \in InetValues }

InetChooseAt(p) ==
    inet_spg_choose([hasPrefix |-> p.hasPrefix, prefixDatum |-> p.prefixDatum,
                     allTheSame |-> FALSE, datum |-> p.leafDatum])

InetInit ==
    /\ \E p \in InetPlacements :
          /\ p.hasPrefix => ip_bits(p.prefixDatum) <= ip_bits(p.leafDatum)
          /\ InetChooseAt(p).resultType = spgMatchNode
          /\ ns = [pc |-> "scan",
                   leafDatum |-> p.leafDatum,
                   hasPrefix |-> p.hasPrefix,
                   prefixDatum |-> p.prefixDatum,
                   nNodes |-> p.nNodes,
                   nodeN |-> InetChooseAt(p).nodeN,
                   bitmap |-> IF p.hasPrefix
                              THEN inet_spg_consistent_bitmap(p.prefixDatum, << >>, FALSE)
                              ELSE InetFamilyKeyLoop(<< >>, 1 + 2),
                   leafBitmap |-> inet_spg_consistent_bitmap(p.leafDatum, << >>, TRUE),
                   nkeys |-> 0]
    /\ bx = Idle /\ ps = Idle /\ gu = Idle /\ tr = Idle /\ se = Idle

\* one more scan key, checked against a node with a prefix and the leaf
InetPrefixKey(key) ==
    /\ ns.pc = "scan"
    /\ ns.hasPrefix
    /\ ns' = [ns EXCEPT
                !.bitmap = InetKeyLoop(ns.prefixDatum, << key >>, FALSE, @),
                !.leafBitmap = InetKeyLoop(ns.leafDatum, << key >>, TRUE, @),
                !.nkeys = Min(@ + 1, 2)]
    /\ UNCHANGED <<bx, ps, gu, tr, se>>

\* one more scan key, checked against the node without prefix and the leaf
InetFamilyKey(key) ==
    /\ ns.pc = "scan"
    /\ ~ns.hasPrefix
    /\ ns' = [ns EXCEPT
                !.bitmap = InetFamilyKeyLoop(<< key >>, @),
                !.leafBitmap = InetKeyLoop(ns.leafDatum, << key >>, TRUE, @),
                !.nkeys = Min(@ + 1, 2)]
    /\ UNCHANGED <<bx, ps, gu, tr, se>>

InetNext ==
    \/ \E key \in InetScanKeys : InetPrefixKey(key)
    \/ \E key \in InetScanKeys : InetFamilyKey(key)

SpecInet == InetInit /\ [][InetNext]_vars

\* C2: whenever the leaf check accepts the value for the scan keys, the
\* inner check of a node the value is stored under, run on the same keys,
\* returns the child the value is stored in: bit n = inet_spg_node_number
\* of the bitmap of a node with a prefix, and the child of the value's
\* family at the node without prefix.
C2_InetSearchSound ==
    (ns.pc = "scan" /\ ns.leafBitmap = 1)
        => /\ BitmapHas(ns.bitmap, ns.nodeN)
           /\ ns.nodeN \in SeqRange(InetNodeNumbers(ns.bitmap, ns.nNodes))
           /\ ns.hasPrefix =>
                  ns.nodeN = inet_spg_node_number(ns.leafDatum, ip_bits(ns.prefixDatum))
           /\ ~ns.hasPrefix =>
                  ns.nodeN = (IF ip_family(ns.leafDatum) = PGSQL_AF_INET THEN 0 ELSE 1)

\* C2 witness: after two scan keys the leaf check still accepts the value,
\* which lies below a prefix shorter than its own, while the inner check
\* has pruned some other child.
C2_Witness ==
    /\ ns.pc = "scan" /\ ns.hasPrefix /\ ns.nkeys = 2
    /\ ip_bits(ns.prefixDatum) < ip_bits(ns.leafDatum)
    /\ ns.leafBitmap = 1
    /\ BitmapHas(ns.bitmap, ns.nodeN)
    /\ ns.bitmap # 1 + 2 + 4 + 8

(***************************************************************************)
(* GiST support for the network types: union and penalty                   *)
(***************************************************************************)

\* one iteration of the loop of inet_gist_union over the keys after the
\* first: acc holds family, bits and whether the loop was left
inet_gist_unionStepNoMin(acc, addr, tmp) ==
    IF acc.stop THEN acc
    ELSE IF ip_family(tmp) # acc.family
    THEN [family |-> 0, bits |-> 0, stop |-> TRUE]
    ELSE [family |-> acc.family,
          bits |-> IF acc.bits # 0 THEN bitncommon(addr, ip_addr(tmp), acc.bits) ELSE 0,
          stop |-> FALSE]

inet_gist_unionStep(acc, addr, tmp) ==
    IF acc.stop THEN acc
    ELSE IF ip_family(tmp) # acc.family
    THEN [family |-> 0, bits |-> 0, stop |-> TRUE]
    ELSE LET bits == IF acc.bits > ip_bits(tmp) THEN ip_bits(tmp) ELSE acc.bits
         IN  [family |-> acc.family,
              bits |-> IF bits # 0 THEN bitncommon(addr, ip_addr(tmp), bits) ELSE 0,
              stop |-> FALSE]

RECURSIVE inet_gist_unionLoop(_, _, _, _)
inet_gist_unionLoop(acc, addr, ent, i) ==
    IF i > Len(ent) THEN acc
    ELSE inet_gist_unionLoop(inet_gist_unionStep(acc, addr, ent[i]), addr, ent, i + 1)

\* the address of the first key is copied whole
inet_gist_unionNoClean(entryvec) ==
    LET first == entryvec[1]
        acc == inet_gist_unionLoop(
                   [family |-> ip_family(first), bits |-> ip_bits(first), stop |-> FALSE],
                   ip_addr(first), entryvec, 2)
    IN  Inet(acc.family, acc.bits, ip_addr(first))

inet_gist_union(entryvec) ==
    LET first == entryvec[1]
        addr == ip_addr(first)
        acc == inet_gist_unionLoop(
                   [family |-> ip_family(first), bits |-> ip_bits(first), stop |-> FALSE],
                   addr, entryvec, 2)
        maxbits == IF acc.family = PGSQL_AF_INET THEN V4Bits ELSE V6Bits
    IN  Inet(acc.family, acc.bits,
             [i \in 1 .. maxbits |-> IF i <= acc.bits THEN addr[i] ELSE 0])

\* a penalty is a float; the values the function returns are the fractions
\* num / den
Penalty(num, den) == [num |-> num, den |-> den]

PenaltyLess(p, q) == p.num * q.den < q.num * p.den

\* the penalties of no common bit and of a zero prefix length exchanged
inet_gist_penaltySwapped(orig, new) ==
    IF ip_family(orig) = ip_family(new)
    THEN LET minbits == Min(ip_bits(orig), ip_bits(new))
         IN  IF minbits > 0
             THEN LET commonbits == bitncommon(ip_addr(orig), ip_addr(new), minbits)
                  IN  IF commonbits > 0 THEN Penalty(1, commonbits) ELSE Penalty(3, 1)
             ELSE Penalty(2, 1)
    ELSE Penalty(4, 1)

inet_gist_penalty(orig, new) ==
    IF ip_family(orig) = ip_family(new)
    THEN LET minbits == Min(ip_bits(orig), ip_bits(new))
         IN  IF minbits > 0
             THEN LET commonbits == bitncommon(ip_addr(orig), ip_addr(new), minbits)
                  IN  IF commonbits > 0 THEN Penalty(1, commonbits) ELSE Penalty(2, 1)
             ELSE Penalty(3, 1)
    ELSE Penalty(4, 1)

\* A page collects keys: values on a leaf page, and on an upper page also
\* the union computed for a page below; the union of the page is taken.
GistInit ==
    /\ gu = [pc |-> "collect", vector |-> << >>, union |-> NULL]
    /\ bx = Idle /\ ps = Idle /\ ns = Idle /\ tr = Idle /\ se = Idle

GistAddEntry(key, front) ==
    /\ gu.pc = "collect"
    /\ Len(gu.vector) < MaxEntries
    /\ gu' = [gu EXCEPT !.vector = IF front THEN << key >> \o @ ELSE Append(@, key)]
    /\ UNCHANGED <<bx, ps, ns, tr, se>>

GistUnion ==
    /\ gu.pc = "collect"
    /\ Len(gu.vector) >= 1
    /\ gu' = [gu EXCEPT !.pc = "united", !.union = inet_gist_union(gu.vector)]
    /\ UNCHANGED <<bx, ps, ns, tr, se>>

\* the union becomes the first key of the page above
GistUnionUp ==
    /\ gu.pc = "united"
    /\ gu' = [gu EXCEPT !.pc = "collect", !.vector = << gu.union >>, !.union = NULL]
    /\ UNCHANGED <<bx, ps, ns, tr, se>>

GistNext ==
    \/ \E key \in InetValues, front \in BOOLEAN : GistAddEntry(key, front)
    \/ GistUnion
    \/ GistUnionUp

SpecGist == GistInit /\ [][GistNext]_vars

\* The keys of an upper page are unions: of the values of a page of one
\* family, or of a page with values of both families.
GistUpperKey(value, mixed) ==
    IF mixed
    THEN LET other == IF ip_family(value) = PGSQL_AF_INET THEN PGSQL_AF_INET6
                      ELSE PGSQL_AF_INET
         IN  inet_gist_union(
                 << value, Inet(other, 0, [i \in 1 .. FamilyBits(other) |-> 0]) >>)
    ELSE inet_gist_union(<< value >>)

\* The subtree for a new value is chosen by comparing the penalties of the
\* keys of the page, the best one so far against the next one.
PenaltyInit ==
    /\ gu = [pc |-> "page", best |-> NULL, candidate |-> NULL,
             new |-> NULL, penalties |-> << >>]
    /\ bx = Idle /\ ps = Idle /\ ns = Idle /\ tr = Idle /\ se = Idle

PenaltyKeys(v, vmixed, w, wmixed) ==
    /\ gu.pc = "page"
    /\ gu' = [gu EXCEPT !.pc = "keys",
                         !.best = GistUpperKey(v, vmixed),
                         !.candidate = GistUpperKey(w, wmixed)]
    /\ UNCHANGED <<bx, ps, ns, tr, se>>

GistPenalty(new) ==
    /\ gu.pc = "keys"
    /\ gu' = [gu EXCEPT
                !.pc = "penalty",
                !.new = new,
                !.penalties = << inet_gist_penalty(gu.best, new),
                                 inet_gist_penalty(gu.candidate, new) >>]
    /\ UNCHANGED <<bx, ps, ns, tr, se>>

PenaltyNext ==
    \/ \E v, w \in InetValues, vmixed, wmixed \in BOOLEAN : PenaltyKeys(v, vmixed, w, wmixed)
    \/ \E new \in InetValues : GistPenalty(new)

SpecPenalty == PenaltyInit /\ [][PenaltyNext]_vars

\* the key U covers the member m
Covers(U, m) ==
    \/ ip_family(U) = 0
    \/ /\ ip_family(U) = ip_family(m)
       /\ ip_bits(U) <= ip_bits(m)
       /\ \A i \in 1 .. ip_bits(U) : ip_addr(U)[i] = ip_addr(m)[i]

\* C3: the union of the keys of a page covers every one of them, and when
\* all of them are of one address family the union is of that family, not
\* the mixed-family key of family 0.
C3_UnionCovers ==
    gu.pc = "united" =>
        /\ \A i \in 1 .. Len(gu.vector) : Covers(gu.union, gu.vector[i])
        /\ \A f \in {PGSQL_AF_INET, PGSQL_AF_INET6} :
               (\A i \in 1 .. Len(gu.vector) : ip_family(gu.vector[i]) = f)
                   => ip_family(gu.union) = f

\* C3 witness: the union of a full page of different keys of one family,
\* which keeps a common bit and is shorter than one of the keys.
C3_Witness ==
    /\ gu.pc = "united"
    /\ Len(gu.vector) = MaxEntries
    /\ \A i, j \in 1 .. Len(gu.vector) : i # j => gu.vector[i] # gu.vector[j]
    /\ ip_family(gu.union) = PGSQL_AF_INET6
    /\ ip_bits(gu.union) >= 1
    /\ \E i \in 1 .. Len(gu.vector) : ip_bits(gu.vector[i]) > ip_bits(gu.union)

\* number of leading bits, at most n, on which two addresses agree
LeadingBitsInCommon(l, r, n) ==
    Cardinality({ k \in 1 .. n : \A j \in 1 .. k : l[j] = r[j] })

\* the four cases of the penalty, in the order of preference
PenaltyCase(orig, new) ==
    IF ip_family(orig) # ip_family(new) THEN 4
    ELSE IF Min(ip_bits(orig), ip_bits(new)) = 0 THEN 3
    ELSE IF LeadingBitsInCommon(ip_addr(orig), ip_addr(new),
                                Min(ip_bits(orig), ip_bits(new))) = 0 THEN 2
    ELSE 1

\* C10: the penalty is 4 for different families, else 3 when the smaller
\* prefix length is 0, else 2 when no leading bit is shared within it, else
\* 1/commonbits; so it is at most 1 when a bit is shared, smaller the more
\* bits are shared, and ordered common bits < no common bit < zero length <
\* different families.
C10_PenaltyOrder ==
    gu.pc = "penalty" =>
        LET orig(i) == IF i = 1 THEN gu.best ELSE gu.candidate
            case(i) == PenaltyCase(orig(i), gu.new)
            common(i) == LeadingBitsInCommon(ip_addr(orig(i)), ip_addr(gu.new),
                             Min(ip_bits(orig(i)), ip_bits(gu.new)))
        IN  /\ \A i \in 1 .. 2 :
                   /\ case(i) = 4 => gu.penalties[i] = Penalty(4, 1)
                   /\ case(i) = 3 => gu.penalties[i] = Penalty(3, 1)
                   /\ case(i) = 2 => gu.penalties[i] = Penalty(2, 1)
                   /\ case(i) = 1 =>
                          /\ gu.penalties[i] = Penalty(1, common(i))
                          /\ ~PenaltyLess(Penalty(1, 1), gu.penalties[i])
            /\ \A i, j \in 1 .. 2 :
                   /\ case(i) < case(j) => PenaltyLess(gu.penalties[i], gu.penalties[j])
                   /\ (case(i) = 1 /\ case(j) = 1 /\ common(i) > common(j))
                          => PenaltyLess(gu.penalties[i], gu.penalties[j])

\* C10 witness: the penalties of a new value against a key sharing two bits
\* with it and a key sharing one bit.
C10_Witness ==
    /\ gu.pc = "penalty"
    /\ gu.penalties[1] = Penalty(1, 2)
    /\ gu.penalties[2] = Penalty(1, 1)
    /\ PenaltyLess(gu.penalties[1], gu.penalties[2])

(***************************************************************************)
(* inet_spg_picksplit                                                      *)
(***************************************************************************)
\* one iteration of the loop over the tuples after the first; acc holds
\* commonbits, differentFamilies and whether the loop was left
inet_spg_picksplitStep(acc, prefix, tmp) ==
    IF acc.stop THEN acc
    ELSE IF ip_family(tmp) # ip_family(prefix)
    THEN [acc EXCEPT !.differentFamilies = TRUE, !.stop = TRUE]
    ELSE LET commonbits == IF ip_bits(tmp) < acc.commonbits THEN ip_bits(tmp)
                           ELSE acc.commonbits
         IN  IF commonbits = 0
             THEN [acc EXCEPT !.commonbits = 0, !.stop = TRUE]
             ELSE [acc EXCEPT !.commonbits =
                       bitncommon(ip_addr(prefix), ip_addr(tmp), commonbits)]

RECURSIVE inet_spg_picksplitLoop(_, _, _, _)
inet_spg_picksplitLoop(acc, prefix, datums, i) ==
    IF i > Len(datums) THEN acc
    ELSE inet_spg_picksplitLoop(inet_spg_picksplitStep(acc, prefix, datums[i]),
                                prefix, datums, i + 1)

inet_spg_picksplit(in) ==
    LET prefix == in.datums[1]
        acc == inet_spg_picksplitLoop(
                   [commonbits |-> ip_bits(prefix), differentFamilies |-> FALSE,
                    stop |-> FALSE],
                   prefix, in.datums, 2)
    IN  IF acc.differentFamilies
        THEN [hasPrefix |-> FALSE,
              prefixDatum |-> NULL,
              nNodes |-> 2,
              nodeLabels |-> NULL,
              mapTuplesToNodes |->
                  [i \in 1 .. in.nTuples |->
                       IF ip_family(in.datums[i]) = PGSQL_AF_INET THEN 0 ELSE 1],
              leafTupleDatums |-> in.datums]
        ELSE [hasPrefix |-> TRUE,
              prefixDatum |-> cidr_set_masklen_internal(prefix, acc.commonbits),
              nNodes |-> 4,
              nodeLabels |-> NULL,
              mapTuplesToNodes |->
                  [i \in 1 .. in.nTuples |->
                       inet_spg_node_number(in.datums[i], acc.commonbits)],
              leafTupleDatums |-> in.datums]

(***************************************************************************)
(* inet_spg_choose on one inner tuple, and again on the upper tuple the    *)
(* core makes when the function asks for a split.                          *)
(***************************************************************************)
\* the prefixes of inner tuples: networks of either family, or none
InetInnerTuples ==
    { [hasPrefix |-> TRUE, prefixDatum |-> cidr_set_masklen_internal(v, ip_bits(v)),
       allTheSame |-> a] : v \in InetValues, a \in BOOLEAN }
    \cup { [hasPrefix |-> FALSE, prefixDatum |-> NULL, allTheSame |-> FALSE] }

ChooseInit ==
    /\ tr = [pc |-> "insert", in |-> NULL, datum |-> NULL, out |-> NULL,
             afterSplit |-> FALSE, old |-> NULL, split |-> NULL]
    /\ bx = Idle /\ ps = Idle /\ ns = Idle /\ gu = Idle /\ se = Idle

\* the insertion of a value reaches an inner tuple
ChooseCall(tuple, datum) ==
    /\ tr.pc = "insert"
    /\ tr' = [tr EXCEPT
                !.pc = "chosen",
                !.in = tuple,
                !.datum = datum,
                !.out = inet_spg_choose(
                            [hasPrefix |-> tuple.hasPrefix, prefixDatum |-> tuple.prefixDatum,
                             allTheSame |-> tuple.allTheSame, datum |-> datum])]
    /\ UNCHANGED <<bx, ps, ns, gu, se>>

\* spgSplitTuple: the core puts an upper tuple with the prefix the function
\* returned above the tuple, and calls the function for the upper tuple;
\* old and split keep the tuple that was split and what the function asked for
ChooseSplit ==
    /\ tr.pc = "chosen"
    /\ tr.out.resultType = spgSplitTuple
    /\ LET upper == [hasPrefix |-> tr.out.prefixHasPrefix,
                     prefixDatum |-> tr.out.prefixPrefixDatum,
                     allTheSame |-> FALSE]
       IN  tr' = [tr EXCEPT
                    !.in = upper,
                    !.afterSplit = TRUE,
                    !.old = tr.in,
                    !.split = tr.out,
                    !.out = inet_spg_choose(
                                [hasPrefix |-> upper.hasPrefix,
                                 prefixDatum |-> upper.prefixDatum,
                                 allTheSame |-> upper.allTheSame, datum |-> tr.datum])]
    /\ UNCHANGED <<bx, ps, ns, gu, se>>

ChooseNext ==
    \/ \E tuple \in InetInnerTuples, datum \in InetValues : ChooseCall(tuple, datum)
    \/ ChooseSplit

SpecChoose == ChooseInit /\ [][ChooseNext]_vars

\* C6: when inet_spg_choose has asked for a split for a value and is called
\* for the same value on the upper tuple made with the prefix it returned,
\* it returns spgMatchNode.
C6_ChooseStableAfterSplit ==
    (tr.pc = "chosen" /\ tr.afterSplit)
        => /\ tr.out.resultType = spgMatchNode
           /\ tr.out.asserts

\* C6 witness: a split to a shorter prefix of the same family, after which
\* the value matches a node of the upper tuple.
C6_Witness ==
    /\ tr.pc = "chosen" /\ tr.afterSplit
    /\ tr.in.hasPrefix
    /\ ip_bits(tr.in.prefixDatum) >= 1
    /\ tr.out.resultType = spgMatchNode
    /\ tr.out.nodeN \in 0 .. 3

(***************************************************************************)
(* Insertion into the network prefix tree.  The tree is a function from    *)
(* paths (sequences of node numbers, the root being << >>) to inner tuples *)
(* and leaf pages; a path without an entry is an empty downlink.           *)
(***************************************************************************)
\* number of nodes the core gives an all-the-same inner tuple
AllTheSameNodes == 8

LeafPage(tuples) == [kind |-> "leaf", tuples |-> tuples]

InnerTuple(hasPrefix, prefixDatum, nNodes, allTheSame) ==
    [kind |-> "inner", hasPrefix |-> hasPrefix, prefixDatum |-> prefixDatum,
     nNodes |-> nNodes, allTheSame |-> allTheSame]

TreeNode(tree, path) ==
    IF path \in DOMAIN tree THEN tree[path] ELSE LeafPage(<< >>)

IsPathPrefix(p, q) == Len(p) <= Len(q) /\ SubSeq(q, 1, Len(p)) = p

\* spgSplitTuple: an upper tuple with the returned prefix takes the place of
\* the inner tuple, which moves with all below it under node postfixNodeN
TreeSplitTuple(tree, path, out) ==
    LET moved(q) == path \o << out.postfixNodeN >> \o SubSeq(q, Len(path) + 1, Len(q))
        below == { q \in DOMAIN tree : IsPathPrefix(path, q) }
        rest == [q \in DOMAIN tree \ below |-> tree[q]]
        upper == path :> InnerTuple(out.prefixHasPrefix, out.prefixPrefixDatum,
                                    out.prefixNNodes, FALSE)
        lower == [r \in { moved(q) : q \in below } |->
                     LET q == CHOOSE q \in below : moved(q) = r
                     IN  IF q = path
                         THEN [tree[q] EXCEPT !.hasPrefix = out.postfixHasPrefix,
                                              !.prefixDatum = out.postfixPrefixDatum]
                         ELSE tree[q]]
    IN  upper @@ lower @@ rest

\* the leaf pages below a new inner tuple: tuple i goes to node map[i]
TreeLeaves(path, datums, map) ==
    LET used == { map[i] : i \in 1 .. Len(map) }
    IN  [r \in { path \o << n >> : n \in used } |->
            LET in(i) == map[i] = r[Len(r)]
                idx == SelectSeq([i \in 1 .. Len(map) |-> i], in)
            IN  LeafPage([k \in 1 .. Len(idx) |-> datums[idx[k]]])]

\* checkAllTheSame: the tuples do not fit on one page, so the new tuple (the
\* last one) is left out of the test whether the function separated them
checkAllTheSame(in, out) ==
    LET limit == in.nTuples - 1
        theNode == out.mapTuplesToNodes[1]
        same == in.nTuples > 1
                /\ \A i \in 2 .. limit : out.mapTuplesToNodes[i] = theNode
    IN  [allTheSame |-> same,
         includeNew |-> ~(same /\ out.mapTuplesToNodes[in.nTuples] # theNode)]

\* spgdoinsert from the tuple or page at path on; pick is the node the core
\* draws at random in an all-the-same tuple
RECURSIVE TreeInsertAt(_, _, _, _, _)
TreeInsertAt(tree, path, datum, pick, fuel) ==
    LET node == TreeNode(tree, path)
    IN
    IF fuel = 0 THEN tree
    ELSE IF node.kind = "leaf"
    THEN IF Len(node.tuples) < LeafCapacity
         THEN (path :> LeafPage(Append(node.tuples, datum))) @@ tree
         ELSE \* doPickSplit
              LET in == [nTuples |-> Len(node.tuples) + 1,
                         datums |-> Append(node.tuples, datum)]
                  out == inet_spg_picksplit(in)
                  chk == checkAllTheSame(in, out)
              IN  IF ~chk.allTheSame
                  THEN (path :> InnerTuple(out.hasPrefix, out.prefixDatum,
                                           out.nNodes, FALSE))
                       @@ TreeLeaves(path, in.datums, out.mapTuplesToNodes)
                       @@ tree
                  ELSE LET n == IF chk.includeNew THEN in.nTuples ELSE in.nTuples - 1
                           split == (path :> InnerTuple(out.hasPrefix, out.prefixDatum,
                                                        AllTheSameNodes, TRUE))
                                    @@ TreeLeaves(path, SubSeq(in.datums, 1, n),
                                           [i \in 1 .. n |-> (i - 1) % AllTheSameNodes])
                                    @@ tree
                       IN  IF chk.includeNew THEN split
                           ELSE TreeInsertAt(split, path, datum, pick, fuel - 1)
    ELSE LET out == inet_spg_choose(
                        [hasPrefix |-> node.hasPrefix, prefixDatum |-> node.prefixDatum,
                         allTheSame |-> node.allTheSame, datum |-> datum])
         IN  IF out.resultType = spgMatchNode
             THEN TreeInsertAt(tree,
                               path \o << IF node.allTheSame THEN pick % node.nNodes
                                          ELSE out.nodeN >>,
                               datum, pick, fuel - 1)
             ELSE TreeInsertAt(TreeSplitTuple(tree, path, out), path, datum, pick,
                               fuel - 1)

TreeInit ==
    /\ tr = [pc |-> "tree", tree |-> << >>, nInserts |-> 0]
    /\ bx = Idle /\ ps = Idle /\ ns = Idle /\ gu = Idle /\ se = Idle

\* the nodes the core may draw for one insertion
TreePicks(tree) ==
    IF \E p \in DOMAIN tree : tree[p].kind = "inner" /\ tree[p].allTheSame
    THEN 0 .. AllTheSameNodes - 1
    ELSE {0}

\* one value is inserted into the index
TreeInsert(datum, pick) ==
    /\ tr.pc = "tree"
    /\ tr.nInserts < MaxInserts
    /\ tr' = [tr EXCEPT
                !.tree = TreeInsertAt(tr.tree, << >>, datum, pick, 2 * MaxInserts + 4),
                !.nInserts = tr.nInserts + 1]
    /\ UNCHANGED <<bx, ps, ns, gu, se>>

TreeNext ==
    \E datum \in InetValues, pick \in TreePicks(tr.tree) : TreeInsert(datum, pick)

SpecTree == TreeInit /\ [][TreeNext]_vars

TreeInnerPaths(tree) == { p \in DOMAIN tree : tree[p].kind = "inner" }

\* C4: in a tree built by insertions the prefix length never decreases from
\* an inner tuple to an inner tuple below it, and a tuple that splits by
\* address family occurs only at the root; all-the-same tuples included.
C4_PrefixLengthsMonotone ==
    tr.pc = "tree" =>
        LET tree == tr.tree
        IN  /\ \A p \in TreeInnerPaths(tree) : ~tree[p].hasPrefix => p = << >>
            /\ \A p, q \in TreeInnerPaths(tree) :
                   (IsPathPrefix(p, q) /\ tree[p].hasPrefix /\ tree[q].hasPrefix)
                       => ip_bits(tree[p].prefixDatum) <= ip_bits(tree[q].prefixDatum)

(***************************************************************************)
(* Selectivity estimation.  A double is NaN, an infinity or a rational     *)
(* number num/den in lowest terms; the operators follow IEEE arithmetic:   *)
(* 0/0 is NaN, x/0 an infinity, and every comparison with NaN is false.    *)
(***************************************************************************)
RECURSIVE GCD(_, _)
GCD(a, b) == IF b = 0 THEN a ELSE GCD(b, a % b)

Abs(n) == IF n < 0 THEN -n ELSE n

Sign(n) == IF n < 0 THEN -1 ELSE IF n > 0 THEN 1 ELSE 0

NaN == [cls |-> "nan"]

Inf(sign) == [cls |-> "inf", sign |-> sign]

\* the double num/den, den # 0
Fin(num, den) ==
    LET g == GCD(Abs(num), Abs(den))
    IN  [cls |-> "fin", num |-> Sign(den) * (num \div g), den |-> Abs(den) \div g]

FSign(a) == IF a.cls = "inf" THEN a.sign ELSE Sign(a.num)

FNeg(a) ==
    IF a.cls = "nan" THEN NaN
    ELSE IF a.cls = "inf" THEN Inf(-a.sign)
    ELSE Fin(-a.num, a.den)

FAdd(a, b) ==
    IF a.cls = "nan" \/ b.cls = "nan" THEN NaN
    ELSE IF a.cls = "inf" /\ b.cls = "inf"
    THEN IF a.sign = b.sign THEN a ELSE NaN
    ELSE IF a.cls = "inf" THEN a
    ELSE IF b.cls = "inf" THEN b
    ELSE Fin(a.num * b.den + b.num * a.den, a.den * b.den)

FSub(a, b) == FAdd(a, FNeg(b))

FMul(a, b) ==
    IF a.cls = "nan" \/ b.cls = "nan" THEN NaN
    ELSE IF a.cls = "inf" \/ b.cls = "inf"
    THEN IF FSign(a) * FSign(b) = 0 THEN NaN ELSE Inf(FSign(a) * FSign(b))
    ELSE Fin(a.num * b.num, a.den * b.den)

FDiv(a, b) ==
    IF a.cls = "nan" \/ b.cls = "nan" THEN NaN
    ELSE IF a.cls = "inf"
    THEN IF b.cls = "inf" THEN NaN
         ELSE Inf(a.sign * (IF FSign(b) < 0 THEN -1 ELSE 1))
    ELSE IF b.cls = "inf" THEN Fin(0, 1)
    ELSE IF b.num = 0
    THEN IF a.num = 0 THEN NaN ELSE Inf(Sign(a.num))
    ELSE Fin(a.num * b.den, a.den * b.num)

\* a < b
FLess(a, b) ==
    IF a.cls = "nan" \/ b.cls = "nan" THEN FALSE
    ELSE IF a.cls = "inf" THEN a.sign < 0 /\ ~(b.cls = "inf" /\ b.sign < 0)
    ELSE IF b.cls = "inf" THEN b.sign > 0
    ELSE a.num * b.den < b.num * a.den

\* pow(2, n)
pow2(n) == IF n >= 0 THEN Fin(2 ^ n, 1) ELSE Fin(1, 2 ^ (-n))

\* CLAMP_PROBABILITY(p)
CLAMP_PROBABILITY(p) ==
    IF FLess(p, Fin(0, 1)) THEN Fin(0, 1)
    ELSE IF FLess(Fin(1, 1), p) THEN Fin(1, 1)
    ELSE p

Max(a, b) == IF a > b THEN a ELSE b

DEFAULT_OVERLAP_SEL == Fin(1, 100)
DEFAULT_INCLUSION_SEL == Fin(1, 200)
DEFAULT_NETWORK_OVERLAP_SELECTIVITY == Fin(1, 100)

OID_INET_CONTAINS_OP == "OID_INET_CONTAINS_OP"
OID_INET_CONTAINSEQ_OP == "OID_INET_CONTAINSEQ_OP"
OID_INET_OVERLAP_OP == "OID_INET_OVERLAP_OP"
OID_INET_CONTAINEDEQ_OP == "OID_INET_CONTAINEDEQ_OP"
OID_INET_CONTAINED_OP == "OID_INET_CONTAINED_OP"

InclusionOperators ==
    {OID_INET_CONTAINS_OP, OID_INET_CONTAINSEQ_OP, OID_INET_OVERLAP_OP,
     OID_INET_CONTAINEDEQ_OP, OID_INET_CONTAINED_OP}

DEFAULT_SEL(operator) ==
    IF operator = OID_INET_OVERLAP_OP THEN DEFAULT_OVERLAP_SEL
    ELSE DEFAULT_INCLUSION_SEL

inet_opr_order(operator) ==
    CASE operator = OID_INET_CONTAINS_OP -> -2
      [] operator = OID_INET_CONTAINSEQ_OP -> -1
      [] operator = OID_INET_OVERLAP_OP -> 0
      [] operator = OID_INET_CONTAINEDEQ_OP -> 1
      [] operator = OID_INET_CONTAINED_OP -> 2

inet_masklen_inclusion_cmp(left, right, opr_order) ==
    IF ip_family(left) = ip_family(right)
    THEN LET order == ip_bits(left) - ip_bits(right)
         IN  IF \/ (order > 0 /\ opr_order >= 0)
                \/ (order = 0 /\ opr_order >= -1 /\ opr_order <= 1)
                \/ (order < 0 /\ opr_order <= 0)
             THEN 0
             ELSE opr_order
    ELSE ip_family(left) - ip_family(right)

inet_inclusion_cmp(left, right, opr_order) ==
    IF ip_family(left) = ip_family(right)
    THEN LET order == bitncmp(ip_addr(left), ip_addr(right),
                              Min(ip_bits(left), ip_bits(right)))
         IN  IF order # 0 THEN order
             ELSE inet_masklen_inclusion_cmp(left, right, opr_order)
    ELSE ip_family(left) - ip_family(right)

inet_hist_match_divider(hist, query, opr_order) ==
    IF inet_masklen_inclusion_cmp(hist, query, opr_order) = 0
    THEN LET min_bits == Min(ip_bits(hist), ip_bits(query))
             decisive_bits == IF opr_order < 0 THEN ip_bits(hist)
                              ELSE IF opr_order > 0 THEN ip_bits(query)
                              ELSE min_bits
         IN  IF min_bits > 0
             THEN decisive_bits - bitncommon(ip_addr(hist), ip_addr(query), min_bits)
             ELSE decisive_bits
    ELSE -1

\* one iteration of the loop over the histogram: right is values[i]
inet_hist_inclusion_step(acc, right, query, ndistinct, opr_order) ==
    LET left == acc.left
        left_order == acc.left_order
        right_order == inet_inclusion_cmp(right, query, opr_order)
        left_divider == inet_hist_match_divider(left, query, opr_order)
        right_divider == inet_hist_match_divider(right, query, opr_order)
        match ==
            IF right_order = 0
            THEN IF left_order = 0
                 THEN FAdd(acc.match, Fin(1, 1))
                 ELSE IF ndistinct > 0
                 THEN FAdd(acc.match, FDiv(Fin(1, 1), Fin(ndistinct, 1)))
                 ELSE acc.match
            ELSE IF /\ \/ (right_order > 0 /\ left_order <= 0)
                       \/ (right_order < 0 /\ left_order >= 0)
                    /\ left # NULL
            THEN IF left_divider > right_divider /\ left_divider > 0
                 THEN FAdd(acc.match, FDiv(Fin(1, 1), pow2(left_divider)))
                 ELSE IF right_divider > 0
                 THEN FAdd(acc.match, FDiv(Fin(1, 1), pow2(right_divider)))
                 ELSE acc.match
            ELSE acc.match
    IN  [left |-> right, left_order |-> right_order, match |-> match]

RECURSIVE inet_hist_inclusion_loop(_, _, _, _, _, _)
inet_hist_inclusion_loop(acc, values, i, query, ndistinct, opr_order) ==
    IF i > Len(values) THEN acc
    ELSE inet_hist_inclusion_loop(
             inet_hist_inclusion_step(acc, values[i], query, ndistinct, opr_order),
             values, i + 1, query, ndistinct, opr_order)

\* vardata.hasHistogram is the result of get_attstatsslot, which fills in
\* values and nvalues
inet_hist_inclusion_selectivity(vardata, constvalue, ndistinct, opr_order) ==
    IF ~vardata.hasHistogram THEN Fin(-1, 1)
    ELSE LET histogram == vardata.histogram
             nvalues == Len(histogram)
             acc == inet_hist_inclusion_loop(
                        [left |-> NULL, left_order |-> -255, match |-> Fin(0, 1)],
                        histogram, 1, constvalue, ndistinct, opr_order)
             divider == IF ndistinct > 0
                        THEN FAdd(Fin(nvalues - 1, 1),
                                  FDiv(Fin(1, 1), Fin(ndistinct, 1)))
                        ELSE Fin(nvalues - 1, 1)
         IN  FDiv(acc.match, divider)

\* in.restriction tells how far the clause gets through the tests on its
\* form; in.mcv_selec is what mcv_selectivity returns for the constant and
\* stats.sumcommon what it stores in max_mcv_selec
inetinclusionsel(in) ==
    LET stats == in.statsTuple
        mcv_selec == in.mcv_selec
        max_mcv_selec == stats.sumcommon
        max_hist_selec == FSub(FSub(Fin(1, 1), stats.stanullfrac), max_mcv_selec)
        order == IF in.varonleft THEN inet_opr_order(in.operator)
                 ELSE inet_opr_order(in.operator) * (-1)
        hist_selec == inet_hist_inclusion_selectivity(stats, in.constvalue,
                                                      stats.stadistinct, order)
    IN
    IF in.restriction = "novariable" THEN DEFAULT_SEL(in.operator)
    ELSE IF in.restriction = "notconst" THEN DEFAULT_SEL(in.operator)
    ELSE IF in.restriction = "constisnull" THEN Fin(0, 1)
    ELSE IF stats = NULL THEN DEFAULT_SEL(in.operator)
    ELSE IF FLess(FDiv(max_hist_selec, max_mcv_selec), mcv_selec)
    THEN FDiv(mcv_selec, FSub(Fin(1, 1), max_hist_selec))
    ELSE IF FLess(hist_selec, Fin(0, 1))
    THEN IF FLess(Fin(0, 1), max_mcv_selec)
         THEN FDiv(mcv_selec, FSub(Fin(1, 1), max_hist_selec))
         ELSE DEFAULT_SEL(in.operator)
    ELSE CLAMP_PROBABILITY(FAdd(mcv_selec, FMul(max_hist_selec, hist_selec)))

\* one iteration of the loop of inet_hist_overlap_selectivity; acc.right_min_bits
\* keeps the value the variable had before the iteration
inet_hist_overlap_step(acc, right, query, ndistinct) ==
    LET family == ip_family(query)
        bits == ip_bits(query)
        addr == ip_addr(query)
        left == acc.right
        left_min_bits == IF left = NULL THEN 0 ELSE acc.right_min_bits
        left_order == IF left = NULL THEN 1 ELSE acc.right_order
        right_min_bits == IF ip_family(right) = family THEN Min(ip_bits(right), bits)
                          ELSE acc.right_min_bits
        right_order == IF ip_family(right) = family
                       THEN IF right_min_bits = 0 THEN 0
                            ELSE bitncmp(ip_addr(right), addr, right_min_bits)
                       ELSE IF ip_family(right) > family THEN 1
                       ELSE -1
        left_common_bits == IF left_min_bits = 0 \/ ip_family(left) # family THEN 0
                            ELSE bitncommon(ip_addr(left), addr, left_min_bits)
        right_common_bits == IF right_min_bits = 0 \/ ip_family(left) # family THEN 0
                             ELSE bitncommon(ip_addr(right), addr, right_min_bits)
        divider == Max(left_min_bits, right_min_bits)
                   - Max(left_common_bits, right_common_bits)
        match ==
            IF right_order = 0
            THEN IF left_order = 0
                 THEN FAdd(acc.match, Fin(1, 1))
                 ELSE IF ndistinct > 0
                 THEN FAdd(acc.match, Fin(IF 1 > ndistinct THEN 1 ELSE 0, 1))
                 ELSE acc.match
            ELSE IF /\ \/ (right_order > 0 /\ left_order <= 0)
                       \/ (right_order < 0 /\ left_order >= 0)
                    /\ left # NULL
            THEN FAdd(acc.match, FDiv(Fin(1, 1), pow2(divider)))
            ELSE acc.match
    IN  [right |-> right, right_min_bits |-> right_min_bits,
         right_order |-> right_order, match |-> match]

RECURSIVE inet_hist_overlap_loop(_, _, _, _, _)
inet_hist_overlap_loop(acc, values, i, query, ndistinct) ==
    IF i > Len(values) THEN acc
    ELSE inet_hist_overlap_loop(
             inet_hist_overlap_step(acc, values[i], query, ndistinct),
             values, i + 1, query, ndistinct)

\* uninit is the value right_min_bits holds before its first assignment
inet_hist_overlap_selectivity(vardata, constvalue, ndistinct, uninit) ==
    IF ~vardata.hasHistogram THEN Fin(0, 1)
    ELSE LET histogram == vardata.histogram
             nvalues == Len(histogram)
             acc == inet_hist_overlap_loop(
                        [right |-> NULL, right_min_bits |-> uninit, right_order |-> 0,
                         match |-> Fin(0, 1)],
                        histogram, 1, constvalue, ndistinct)
             divider == IF ndistinct > 0
                        THEN FAdd(Fin(nvalues - 1, 1),
                                  FDiv(Fin(1, 1), Fin(ndistinct, 1)))
                        ELSE Fin(nvalues - 1, 1)
         IN  FDiv(acc.match, divider)

network_overlap_selectivity(in) ==
    LET stats == in.statsTuple
        selec == in.mcv_selec
        mcv_selec == stats.sumcommon
        hist_selec == FSub(FSub(Fin(1, 1), stats.stanullfrac), mcv_selec)
    IN
    IF in.restriction = "novariable" THEN DEFAULT_NETWORK_OVERLAP_SELECTIVITY
    ELSE IF in.restriction = "notconst" THEN DEFAULT_NETWORK_OVERLAP_SELECTIVITY
    ELSE IF in.restriction = "constisnull" THEN Fin(0, 1)
    ELSE IF stats = NULL THEN DEFAULT_NETWORK_OVERLAP_SELECTIVITY
    ELSE IF FLess(FDiv(hist_selec, mcv_selec), selec)
    THEN FDiv(selec, FSub(Fin(1, 1), hist_selec))
    ELSE CLAMP_PROBABILITY(
             FAdd(selec,
                  FMul(hist_selec,
                       inet_hist_overlap_selectivity(stats, in.constvalue,
                                                     stats.stadistinct, in.uninit))))

\* the operator has a negator: the estimate is made for the negator
network_adjacent_selectivity(in) ==
    FSub(Fin(1, 1), network_overlap_selectivity(in))

\* network_cmp_internal: the order of the inet type, by which ANALYZE sorts
\* the histogram
network_cmp_internal(a1, a2) ==
    IF ip_family(a1) = ip_family(a2)
    THEN LET order == bitncmp(ip_addr(a1), ip_addr(a2), Min(ip_bits(a1), ip_bits(a2)))
         IN  IF order # 0 THEN order
             ELSE IF ip_bits(a1) # ip_bits(a2) THEN ip_bits(a1) - ip_bits(a2)
             ELSE bitncmp(ip_addr(a1), ip_addr(a2), ip_maxbits(a1))
    ELSE ip_family(a1) - ip_family(a2)

\* the histograms of a column: up to MaxHistogram values in ascending order
Histograms ==
    UNION { { h \in [1 .. n -> InetValues] :
                \A i \in 1 .. n - 1 : network_cmp_internal(h[i], h[i + 1]) < 0 }
            : n \in 0 .. MaxHistogram }

\* the fractions 0, 1/FractionSteps, ..., 1
Fractions == { Fin(k, FractionSteps) : k \in 0 .. FractionSteps }

\* stadistinct: a number of values, or a multiple of the number of rows
\* written as a negative number, or 0 if unknown
StaDistinct == -1 .. 1

\* the pg_statistic rows of a column: the null fraction and the frequency of
\* all most common values together are at most 1
StatsTuples ==
    { t \in [stanullfrac : Fractions, sumcommon : Fractions, stadistinct : StaDistinct,
             hasHistogram : BOOLEAN, histogram : Histograms] :
        /\ ~FLess(Fin(1, 1), FAdd(t.stanullfrac, t.sumcommon))
        /\ ~t.hasHistogram => t.histogram = << >> }

\* the frequencies of the most common values the constant matches are a
\* part of the frequency of all of them
SelMcvSelecs(stats) ==
    IF stats = NULL THEN {Fin(0, 1)}
    ELSE { f \in Fractions : ~FLess(stats.sumcommon, f) }

\* the clauses the estimators are called for: those that leave at one of the
\* tests on the form of the clause, where only the operator matters, and
\* those with a constant, for which the statistics are read
Clauses(stats) ==
    [restriction : {"novariable", "notconst", "constisnull"},
     operator : InclusionOperators, varonleft : {TRUE},
     constvalue : {Inet(PGSQL_AF_INET, 0, [i \in 1 .. V4Bits |-> 0])},
     mcv_selec : {Fin(0, 1)}]
    \cup
    [restriction : {"const"}, operator : InclusionOperators, varonleft : BOOLEAN,
     constvalue : InetValues, mcv_selec : SelMcvSelecs(stats)]

\* the values an uninitialized int may hold
UninitializedInts == -1 .. V4Bits

SelInit ==
    /\ se = [pc |-> "analyze", statsTuple |-> NULL, estimator |-> "", selec |-> NULL,
             restriction |-> "", operator |-> "", mcv_selec |-> NULL]
    /\ bx = Idle /\ ps = Idle /\ ns = Idle /\ gu = Idle /\ tr = Idle

\* ANALYZE stores the statistics of the column, or there are none
SelAnalyze ==
    /\ se.pc = "analyze"
    /\ \E stats \in StatsTuples \cup {NULL} :
           se' = [se EXCEPT !.pc = "plan", !.statsTuple = stats]
    /\ UNCHANGED <<bx, ps, ns, gu, tr>>

SelInclusion ==
    /\ se.pc = "plan"
    /\ \E clause \in Clauses(se.statsTuple) :
       se' = [se EXCEPT
                !.pc = "estimated",
                !.estimator = "inetinclusionsel",
                !.restriction = clause.restriction,
                !.operator = clause.operator,
                !.mcv_selec = clause.mcv_selec,
                !.selec = inetinclusionsel(
                              [restriction |-> clause.restriction,
                               operator |-> clause.operator,
                               varonleft |-> clause.varonleft,
                               constvalue |-> clause.constvalue,
                               statsTuple |-> se.statsTuple,
                               mcv_selec |-> clause.mcv_selec])]
    /\ UNCHANGED <<bx, ps, ns, gu, tr>>

\* the overlap operator is the only one the estimator is called for, and
\* the side of the variable makes no difference to it
OverlapClauses(stats) ==
    { c \in Clauses(stats) : c.operator = OID_INET_OVERLAP_OP /\ c.varonleft }

SelOverlap ==
    /\ se.pc = "plan"
    /\ \E clause \in OverlapClauses(se.statsTuple), uninit \in UninitializedInts :
       se' = [se EXCEPT
                !.pc = "estimated",
                !.estimator = "network_overlap_selectivity",
                !.restriction = clause.restriction,
                !.operator = clause.operator,
                !.mcv_selec = clause.mcv_selec,
                !.selec = network_overlap_selectivity(
                              [restriction |-> clause.restriction,
                               constvalue |-> clause.constvalue,
                               statsTuple |-> se.statsTuple,
                               mcv_selec |-> clause.mcv_selec,
                               uninit |-> uninit])]
    /\ UNCHANGED <<bx, ps, ns, gu, tr>>

SelAdjacent ==
    /\ se.pc = "plan"
    /\ \E clause \in OverlapClauses(se.statsTuple), uninit \in UninitializedInts :
       se' = [se EXCEPT
                !.pc = "estimated",
                !.estimator = "network_adjacent_selectivity",
                !.restriction = clause.restriction,
                !.operator = clause.operator,
                !.mcv_selec = clause.mcv_selec,
                !.selec = network_adjacent_selectivity(
                              [restriction |-> clause.restriction,
                               constvalue |-> clause.constvalue,
                               statsTuple |-> se.statsTuple,
                               mcv_selec |-> clause.mcv_selec,
                               uninit |-> uninit])]
    /\ UNCHANGED <<bx, ps, ns, gu, tr>>

SelNext == SelAnalyze \/ SelInclusion \/ SelOverlap \/ SelAdjacent

SpecSel == SelInit /\ [][SelNext]_vars

\* C5: every value inetinclusionsel, network_overlap_selectivity and
\* network_adjacent_selectivity return is a number between 0 and 1, whatever
\* the statistics: any null fraction and frequency of the most common values,
\* any histogram or none, an empty or one-element histogram, ndistinct <= 0.
C5_SelectivityInUnitInterval ==
    se.pc = "estimated" =>
        /\ se.selec.cls = "fin"
        /\ 0 <= se.selec.num
        /\ se.selec.num <= se.selec.den

(***************************************************************************)
(* The GiST support functions called on single keys: inet_gist_same and    *)
(* inet_gist_consistent.                                                   *)
(***************************************************************************)
\* only the bits of the prefix are compared
inet_gist_sameOnPrefix(left, right) ==
    /\ ip_family(right) = ip_family(left)
    /\ ip_bits(right) = ip_bits(left)
    /\ bitncmp(ip_addr(left), ip_addr(right), ip_bits(left)) = 0

inet_gist_same(left, right) ==
    /\ ip_family(right) = ip_family(left)
    /\ ip_bits(right) = ip_bits(left)
    /\ bitncmp(ip_addr(left), ip_addr(right), ip_maxbits(left)) = 0

INETSTRAT_SUB == 8
INETSTRAT_SUBEQ == 11
INETSTRAT_OVERLAPS == 3
INETSTRAT_SUPEQ == 10
INETSTRAT_SUP == 7
INETSTRAT_LT == 19
INETSTRAT_LE == 21
INETSTRAT_EQ == 18
INETSTRAT_GE == 22
INETSTRAT_GT == 20

\* the strategies of the five "case" labels for the network operators
InetStratNetwork ==
    {INETSTRAT_SUB, INETSTRAT_SUBEQ, INETSTRAT_OVERLAPS, INETSTRAT_SUPEQ, INETSTRAT_SUP}

\* what a call of a GiST support function leaves: the value returned and
\* *recheck, or the error raised instead
\* asserts tells whether every Assert the call evaluated held
GistReturn(result) ==
    [error |-> FALSE, result |-> result, recheck |-> FALSE, asserts |-> TRUE]

GistError == [error |-> TRUE, result |-> FALSE, recheck |-> FALSE, asserts |-> TRUE]

\* Check 0 left out
InetGistCheck0Missing(orig) == FALSE

\* Check 0: the key of a page with both address families
InetGistCheck0(orig) == ip_family(orig) = 0

\* Check 3 without the return for the entries of upper pages
InetGistCheck3NetworkOnly(minbits, leaf, strategy) ==
    minbits = 0 /\ strategy \in InetStratNetwork

\* Check 3: no common bits to compare; the cases in which it returns true
InetGistCheck3(minbits, leaf, strategy) ==
    minbits = 0 /\ (strategy \in InetStratNetwork \/ ~leaf)

\* Check 2 with the sub network operators checked on every page
InetGistCheck2OnEveryPage(leaf, strategy, origbits, querybits) ==
    \/ strategy = INETSTRAT_SUB /\ origbits <= querybits
    \/ strategy = INETSTRAT_SUBEQ /\ origbits < querybits
    \/ strategy = INETSTRAT_SUPEQ /\ origbits > querybits
    \/ strategy = INETSTRAT_SUP /\ origbits >= querybits

\* Check 2: network bit count; the cases in which it returns false
InetGistCheck2(leaf, strategy, origbits, querybits) ==
    \/ strategy = INETSTRAT_SUB /\ leaf /\ origbits <= querybits
    \/ strategy = INETSTRAT_SUBEQ /\ leaf /\ origbits < querybits
    \/ strategy = INETSTRAT_SUPEQ /\ origbits > querybits
    \/ strategy = INETSTRAT_SUP /\ origbits >= querybits

\* ent is the index entry: its key and whether it is on a leaf page
inet_gist_consistent(ent, query, strategy) ==
    LET orig == ent.key
        leaf == ent.leaf
        minbits == Min(ip_bits(orig), ip_bits(query))
        order4 == bitncmp(ip_addr(orig), ip_addr(query), minbits)
        order == bitncmp(ip_addr(orig), ip_addr(query), ip_maxbits(orig))
        \* Check 5 and Check 6
        whole ==
            IF strategy \in {INETSTRAT_LT, INETSTRAT_LE} /\ ip_bits(orig) < ip_bits(query)
            THEN GistReturn(TRUE)
            ELSE IF strategy \in {INETSTRAT_LT, INETSTRAT_LE}
                    /\ ip_bits(orig) > ip_bits(query)
            THEN GistReturn(FALSE)
            ELSE IF strategy = INETSTRAT_EQ /\ ip_bits(orig) # ip_bits(query)
            THEN GistReturn(FALSE)
            ELSE IF strategy \in {INETSTRAT_GE, INETSTRAT_GT}
                    /\ ip_bits(orig) > ip_bits(query)
            THEN GistReturn(TRUE)
            ELSE IF strategy \in {INETSTRAT_GE, INETSTRAT_GT}
                    /\ ip_bits(orig) < ip_bits(query)
            THEN GistReturn(FALSE)
            ELSE IF strategy = INETSTRAT_LT THEN GistReturn(order < 0)
            ELSE IF strategy = INETSTRAT_LE THEN GistReturn(order <= 0)
            ELSE IF strategy = INETSTRAT_EQ THEN GistReturn(order = 0)
            ELSE IF strategy = INETSTRAT_GE THEN GistReturn(order >= 0)
            ELSE IF strategy = INETSTRAT_GT THEN GistReturn(order > 0)
            ELSE GistError
        \* Assert(GIST_LEAF(ent)), then Check 5 and Check 6
        afterAssert == [whole EXCEPT !.asserts = leaf]
        \* Check 4, reached with minbits > 0
        common ==
            IF strategy \in InetStratNetwork THEN GistReturn(order4 = 0)
            ELSE IF strategy \in {INETSTRAT_LT, INETSTRAT_LE} /\ order4 > 0
            THEN GistReturn(FALSE)
            ELSE IF strategy \in {INETSTRAT_LT, INETSTRAT_LE} /\ (order4 < 0 \/ ~leaf)
            THEN GistReturn(TRUE)
            ELSE IF strategy = INETSTRAT_EQ /\ order4 # 0 THEN GistReturn(FALSE)
            ELSE IF strategy = INETSTRAT_EQ /\ ~leaf THEN GistReturn(TRUE)
            ELSE IF strategy \in {INETSTRAT_GE, INETSTRAT_GT} /\ order4 < 0
            THEN GistReturn(FALSE)
            ELSE IF strategy \in {INETSTRAT_GE, INETSTRAT_GT} /\ (order4 > 0 \/ ~leaf)
            THEN GistReturn(TRUE)
            ELSE afterAssert
    IN
    \* Check 0
    IF InetGistCheck0(orig) THEN GistReturn(TRUE)
    \* Check 1
    ELSE IF ip_family(orig) # ip_family(query)
    THEN GistReturn(\/ /\ strategy \in {INETSTRAT_LT, INETSTRAT_LE}
                       /\ ip_family(orig) < ip_family(query)
                    \/ /\ strategy \in {INETSTRAT_GE, INETSTRAT_GT}
                       /\ ip_family(orig) > ip_family(query))
    \* Check 2
    ELSE IF InetGistCheck2(leaf, strategy, ip_bits(orig), ip_bits(query))
    THEN GistReturn(FALSE)
    \* Check 3
    ELSE IF InetGistCheck3(minbits, leaf, strategy) THEN GistReturn(TRUE)
    ELSE IF minbits > 0 THEN common
    ELSE afterAssert

\* the strategy numbers a caller may pass: those of the operator class and
\* one that is none of them
GistStrategies ==
    InetStratNetwork
    \cup {INETSTRAT_LT, INETSTRAT_LE, INETSTRAT_EQ, INETSTRAT_GE, INETSTRAT_GT}
    \cup {0}

\* the keys of an index: the values, and the key with family 0 which
\* inet_gist_union makes for a page with both families
GistKeys == InetValues \cup { GistUpperKey(v, TRUE) : v \in InetValues }

OpsInit ==
    /\ gu = [pc |-> "key", fn |-> "", left |-> NULL, right |-> NULL, strategy |-> 0,
             result |-> NULL]
    /\ bx = Idle /\ ps = Idle /\ ns = Idle /\ tr = Idle /\ se = Idle

GistSame ==
    /\ gu.pc = "key"
    /\ \E left \in GistKeys, right \in GistKeys :
          gu' = [gu EXCEPT !.pc = "called", !.fn = "inet_gist_same",
                           !.left = left, !.right = right,
                           !.result = inet_gist_same(left, right)]
    /\ UNCHANGED <<bx, ps, ns, tr, se>>

GistConsistent ==
    /\ gu.pc = "key"
    /\ \E key \in GistKeys, leaf \in BOOLEAN, query \in InetValues,
          strategy \in GistStrategies :
          gu' = [gu EXCEPT !.pc = "called", !.fn = "inet_gist_consistent",
                           !.left = [key |-> key, leaf |-> leaf], !.right = query,
                           !.strategy = strategy,
                           !.result = inet_gist_consistent([key |-> key, leaf |-> leaf],
                                                           query, strategy)]
    /\ UNCHANGED <<bx, ps, ns, tr, se>>

OpsNext == GistSame \/ GistConsistent

SpecOps == OpsInit /\ [][OpsNext]_vars

\* C11 as amended: inet_gist_same is true if and only if both keys have the
\* same family, the same prefix length and the same address on all bits of
\* the family's width, the bits beyond the prefix length included.
C11_SameComparesWholeAddress ==
    (gu.pc = "called" /\ gu.fn = "inet_gist_same") =>
        (gu.result <=>
            /\ ip_family(gu.left) = ip_family(gu.right)
            /\ ip_bits(gu.left) = ip_bits(gu.right)
            /\ \A i \in 1 .. ip_maxbits(gu.left) :
                   AddrBit(ip_addr(gu.left), i - 1) = AddrBit(ip_addr(gu.right), i - 1))

\* two keys with the same family, prefix length and prefix that differ beyond
\* the prefix are compared, and found different
C11_Witness ==
    /\ gu.pc = "called" /\ gu.fn = "inet_gist_same"
    /\ ip_family(gu.left) = ip_family(gu.right)
    /\ ip_bits(gu.left) = ip_bits(gu.right)
    /\ bitncmp(ip_addr(gu.left), ip_addr(gu.right), ip_bits(gu.left)) = 0
    /\ gu.left # gu.right
    /\ gu.result = FALSE

\* C11 as stated: inet_gist_same is true if and only if both keys have the
\* same family, the same prefix length and the same first `bits` address
\* bits; the bits beyond the prefix length do not affect the result.
C11_SameComparesPrefixOnly ==
    (gu.pc = "called" /\ gu.fn = "inet_gist_same") =>
        (gu.result <=>
            /\ ip_family(gu.left) = ip_family(gu.right)
            /\ ip_bits(gu.left) = ip_bits(gu.right)
            /\ \A i \in 1 .. ip_bits(gu.left) :
                   AddrBit(ip_addr(gu.left), i - 1) = AddrBit(ip_addr(gu.right), i - 1))

\* the keys of a page in another order
Reordered(vector, p) == [i \in 1 .. Len(vector) |-> vector[p[i]]]

\* the addresses of all keys agree on their first n bits
SharedPrefix(vector, n) ==
    \A i, j \in 1 .. Len(vector), k \in 1 .. n :
        ip_addr(vector[i])[k] = ip_addr(vector[j])[k]

\* C12: the union of keys of one family has as prefix length the length of
\* the longest leading bit string all addresses share, capped at the smallest
\* prefix length of a key, as address that bit string followed by zeros, and
\* is the same for every order of the keys; the union of keys of different
\* families has family 0 and prefix length 0.
C12_UnionIsCommonPrefix ==
    gu.pc = "united" =>
        LET vector == gu.vector
            n == Len(vector)
            oneFamily == \A i \in 1 .. n : ip_family(vector[i]) = ip_family(vector[1])
            minbits == CHOOSE b \in { ip_bits(vector[i]) : i \in 1 .. n } :
                           \A i \in 1 .. n : b <= ip_bits(vector[i])
        IN  /\ oneFamily =>
                /\ ip_family(gu.union) = ip_family(vector[1])
                /\ ip_bits(gu.union) <= minbits
                /\ SharedPrefix(vector, ip_bits(gu.union))
                /\ ip_bits(gu.union) < minbits
                       => ~SharedPrefix(vector, ip_bits(gu.union) + 1)
                /\ \A k \in 1 .. Len(ip_addr(gu.union)) :
                       ip_addr(gu.union)[k] = IF k <= ip_bits(gu.union)
                                              THEN ip_addr(vector[1])[k] ELSE 0
            /\ ~oneFamily => ip_family(gu.union) = 0 /\ ip_bits(gu.union) = 0
            /\ \A p \in Permutations(1 .. n) :
                   inet_gist_union(Reordered(vector, p)) = gu.union

\* C12 witness: two keys of one family in an order in which the first has
\* bits set beyond the prefix they share, and that prefix is not empty
C12_Witness ==
    /\ gu.pc = "united"
    /\ Len(gu.vector) = 2
    /\ ip_family(gu.vector[1]) = ip_family(gu.vector[2])
    /\ ip_bits(gu.union) >= 1
    /\ ip_addr(gu.vector[1]) # ip_addr(gu.union)
    /\ ip_addr(gu.vector[2]) # ip_addr(gu.vector[1])

\* C18: for an entry whose key has family 0, inet_gist_consistent returns
\* true and sets recheck to false, for every constant and every strategy,
\* on a leaf page and on an upper page.
C18_MixedFamilyKeyAlwaysConsistent ==
    (gu.pc = "called" /\ gu.fn = "inet_gist_consistent" /\ ip_family(gu.left.key) = 0)
        => /\ ~gu.result.error
           /\ gu.result.result = TRUE
           /\ gu.result.recheck = FALSE

\* C18 witness: the key with family 0 on a leaf page, tested for equality
C18_Witness ==
    /\ gu.pc = "called" /\ gu.fn = "inet_gist_consistent"
    /\ ip_family(gu.left.key) = 0
    /\ gu.left.leaf
    /\ gu.strategy = INETSTRAT_EQ
    /\ gu.result.result = TRUE

\* C13: a strategy number that is none of the operator class's strategies
\* makes inet_gist_consistent raise an error, also when the entry's key has
\* family 0 or a family other than the constant's.
C13_UnknownStrategyIsError ==
    (gu.pc = "called" /\ gu.fn = "inet_gist_consistent"
        /\ gu.strategy \notin (GistStrategies \ {0}))
        => gu.result.error

(***************************************************************************)
(* Single calls of the box support functions, with objects in memory.      *)
(* Memory is a sequence of regions, a pointer holds an index into it;      *)
(* palloc extends the sequence.  The core passes a pointer to the          *)
(* traversal value (or NULL) and gets pointers back.                       *)
(***************************************************************************)
\* the pointers to the regions of the approved quadrants when every one of
\* them keeps the object of the first
BoxInnerPointersShared(first, n) == [i \in 1 .. n |-> [addr |-> first]]

\* The pointers to the regions of the approved quadrants: new_rect_box is
\* allocated when it is NULL and set to NULL once a quadrant is approved,
\* so every approved quadrant has an object of its own; a rejected
\* quadrant's object is used again for the next one, the last is freed.
BoxInnerPointers(first, n) == [i \in 1 .. n |-> [addr |-> first + i - 1]]

\* spg_box_quad_inner_consistent on memory mem, in.traversalValue being a
\* pointer into mem or NULL: the result with pointers for the traversal
\* values, and the memory after the call.
BoxInnerOnMemory(in, mem) ==
    LET value == IF in.traversalValue = NULL THEN NULL ELSE mem[in.traversalValue.addr]
        out == spg_box_quad_inner_consistent([in EXCEPT !.traversalValue = value])
        \* the unbounded region is allocated when there is no traversal value
        own == IF in.traversalValue = NULL THEN << initializeUnboundedBox >> ELSE << >>
        n == Len(out.traversalValues)
    IN  IF in.allTheSame
        \* out->traversalValues is left as the core passed it: NULL
        THEN [out |-> [error |-> out.error, nodeNumbers |-> out.nodeNumbers,
                       hasTraversalValues |-> FALSE, traversalValues |-> << >>],
              mem |-> mem \o own]
        ELSE [out |-> [error |-> out.error, nodeNumbers |-> out.nodeNumbers,
                       hasTraversalValues |-> TRUE,
                       traversalValues |->
                           BoxInnerPointers(Len(mem) + Len(own) + 1, n)],
              mem |-> mem \o own \o out.traversalValues]

\* the longest list of scan keys of a call
MaxKeys == 2

\* strategy numbers a caller may pass: some of the operator class and one
\* that is none of them
BoxCallStrategies ==
    { RTOverlapStrategyNumber, RTLeftStrategyNumber, RTContainedByStrategyNumber,
      RTAboveStrategyNumber } \cup {0}

BoxCallQueries == { Box(0, 0, 0, 0), Box(0, 0, 1, 1) }

\* centroids of inner nodes and boxes of leaf tuples
BoxCallBoxes == { Box(0, 0, 1, 1), Box(0, 1, 1, 1), Box(1, 0, 1, 1) }

BoxCallKeys == { ScanKey(s, q) : s \in BoxCallStrategies, q \in BoxCallQueries }

BoxCallKeyLists == UNION { [1 .. n -> BoxCallKeys] : n \in 0 .. MaxKeys }

\* traversal values a parent may have produced
BoxCallRegions ==
    { evalRectBox(initializeUnboundedBox, boxPointerToRangeBox(Box(0, 0, 1, 1)), q) :
          q \in {6} }

\* the memory of the core at a call: nothing, or one traversal value
BoxCallMemories == { << >> } \cup { << r >> : r \in BoxCallRegions }

CallInit ==
    /\ bx = [pc |-> "in", fn |-> "", in |-> NULL, mem |-> << >>, out |-> NULL,
             memAfter |-> << >>]
    /\ ns = [pc |-> "in", fn |-> "", in |-> NULL, out |-> NULL, gist |-> NULL]
    /\ ps = Idle /\ gu = Idle /\ tr = Idle /\ se = Idle

BoxInnerCall ==
    /\ bx.pc = "in" /\ ns.pc = "in"
    /\ \E allTheSame \in BOOLEAN, nNodes \in {16, AllTheSameNodes},
          mem \in BoxCallMemories, c \in BoxCallBoxes, scankeys \in BoxCallKeyLists :
          LET in == [allTheSame |-> allTheSame,
                     traversalValue |-> IF mem = << >> THEN NULL ELSE [addr |-> 1],
                     prefixDatum |-> c,
                     nNodes |-> IF allTheSame THEN nNodes ELSE 16,
                     scankeys |-> scankeys]
              r == BoxInnerOnMemory(in, mem)
          IN  bx' = [pc |-> "called", fn |-> "spg_box_quad_inner_consistent",
                     in |-> in, mem |-> mem, out |-> r.out, memAfter |-> r.mem]
    /\ UNCHANGED <<ps, ns, gu, tr, se>>

BoxLeafCall ==
    /\ bx.pc = "in" /\ ns.pc = "in"
    /\ \E leafBox \in BoxCallBoxes, scankeys \in BoxCallKeyLists :
          LET in == [leafDatum |-> leafBox, scankeys |-> scankeys]
          IN  bx' = [pc |-> "called", fn |-> "spg_box_quad_leaf_consistent",
                     in |-> in, mem |-> << >>,
                     out |-> spg_box_quad_leaf_consistent(in), memAfter |-> << >>]
    /\ UNCHANGED <<ps, ns, gu, tr, se>>

\* the boxes of the example: (0,0)-(1,1), (2,2)-(3,3), (0,2)-(1,3), (2,0)-(3,1)
ExampleBoxes == << Box(0, 0, 1, 1), Box(2, 2, 3, 3), Box(0, 2, 1, 3), Box(2, 0, 3, 1) >>

\* the pick-split function on the boxes of the example, in any order
BoxPickSplitCall ==
    /\ bx.pc = "in" /\ ns.pc = "in"
    /\ \E p \in Permutations(1 .. Len(ExampleBoxes)) :
          LET in == [nTuples |-> Len(ExampleBoxes),
                     datums |-> [i \in 1 .. Len(ExampleBoxes) |-> ExampleBoxes[p[i]]]]
          IN  bx' = [pc |-> "called", fn |-> "spg_box_quad_picksplit",
                     in |-> in, mem |-> << >>,
                     out |-> spg_box_quad_picksplit(in), memAfter |-> << >>]
    /\ UNCHANGED <<ps, ns, gu, tr, se>>

(***************************************************************************)
(* Single calls of the support functions of the network prefix tree.       *)
(***************************************************************************)
\* strategy numbers a caller may pass: some of the operator class and one
\* that is none of them
InetCallStrategies ==
    { RTLessStrategyNumber, RTGreaterEqualStrategyNumber, RTEqualStrategyNumber,
      RTSubStrategyNumber } \cup {0}

\* 0.0.0.0/0, 128.0.0.0/0, 128.0.0.0/1 and ::/0, 8000::/1, c000::/2 at the
\* address widths of the model
InetCallValues ==
    { Inet(PGSQL_AF_INET, 0, [i \in 1 .. V4Bits |-> 0]),
      Inet(PGSQL_AF_INET, 0, [i \in 1 .. V4Bits |-> IF i = 1 THEN 1 ELSE 0]),
      Inet(PGSQL_AF_INET, 1, [i \in 1 .. V4Bits |-> IF i = 1 THEN 1 ELSE 0]),
      Inet(PGSQL_AF_INET6, 0, [i \in 1 .. V6Bits |-> 0]),
      Inet(PGSQL_AF_INET6, 1, [i \in 1 .. V6Bits |-> IF i = 1 THEN 1 ELSE 0]),
      Inet(PGSQL_AF_INET6, 2, [i \in 1 .. V6Bits |-> IF i <= 2 THEN 1 ELSE 0]) }

\* the constants of scan keys and the prefixes of inner tuples
InetCallNetworks ==
    { v \in InetCallValues : ip_family(v) = PGSQL_AF_INET6 \/ ip_bits(v) = 1 }

InetCallKeys == { ScanKey(s, a) : s \in InetCallStrategies, a \in InetCallNetworks }

InetCallKeyLists == UNION { [1 .. n -> InetCallKeys] : n \in 0 .. MaxKeys }

\* the inner tuples of the tree: with the prefix of a value and four nodes,
\* all-the-same with a prefix and the nodes the core gives it, or without
\* prefix and with two nodes
InetCallTuples ==
    { [hasPrefix |-> TRUE, prefixDatum |-> cidr_set_masklen_internal(v, ip_bits(v)),
       allTheSame |-> FALSE, nNodes |-> 4] : v \in InetCallNetworks }
    \cup
    { [hasPrefix |-> TRUE, prefixDatum |-> cidr_set_masklen_internal(v, ip_bits(v)),
       allTheSame |-> TRUE, nNodes |-> n] : v \in InetCallNetworks, n \in {4, AllTheSameNodes} }
    \cup { [hasPrefix |-> FALSE, prefixDatum |-> NULL, allTheSame |-> FALSE, nNodes |-> 2] }

InetInnerCall ==
    /\ bx.pc = "in" /\ ns.pc = "in"
    /\ \E tuple \in InetCallTuples, scankeys \in InetCallKeyLists :
          LET in == [hasPrefix |-> tuple.hasPrefix, prefixDatum |-> tuple.prefixDatum,
                     allTheSame |-> tuple.allTheSame, nNodes |-> tuple.nNodes,
                     scankeys |-> scankeys]
          IN  ns' = [pc |-> "called", fn |-> "inet_spg_inner_consistent",
                     in |-> in, out |-> inet_spg_inner_consistent(in), gist |-> NULL]
    /\ UNCHANGED <<bx, ps, gu, tr, se>>

\* the lists of tuples of a leaf page that overflows
InetCallDatums == UNION { [1 .. n -> InetCallValues] : n \in 1 .. MaxTuples }

InetPickSplitCall ==
    /\ bx.pc = "in" /\ ns.pc = "in"
    /\ \E datums \in InetCallDatums :
          LET in == [nTuples |-> Len(datums), datums |-> datums]
          IN  ns' = [pc |-> "called", fn |-> "inet_spg_picksplit",
                     in |-> in, out |-> inet_spg_picksplit(in), gist |-> NULL]
    /\ UNCHANGED <<bx, ps, gu, tr, se>>

\* the strategy numbers of the ordering operators <, <=, =, >=, > in the
\* operator class of the prefix tree and in that of the GiST index
OrderingStrategies ==
    { [spg |-> RTLessStrategyNumber, gist |-> INETSTRAT_LT],
      [spg |-> RTLessEqualStrategyNumber, gist |-> INETSTRAT_LE],
      [spg |-> RTEqualStrategyNumber, gist |-> INETSTRAT_EQ],
      [spg |-> RTGreaterEqualStrategyNumber, gist |-> INETSTRAT_GE],
      [spg |-> RTGreaterStrategyNumber, gist |-> INETSTRAT_GT] }

\* the strategy numbers of the network operators <<, <<=, &&, >>, >>= in the
\* two operator classes
NetworkStrategies ==
    { [spg |-> RTSubStrategyNumber, gist |-> INETSTRAT_SUB],
      [spg |-> RTSubEqualStrategyNumber, gist |-> INETSTRAT_SUBEQ],
      [spg |-> RTOverlapStrategyNumber, gist |-> INETSTRAT_OVERLAPS],
      [spg |-> RTSuperStrategyNumber, gist |-> INETSTRAT_SUP],
      [spg |-> RTSuperEqualStrategyNumber, gist |-> INETSTRAT_SUPEQ] }

\* the ten operators the two operator classes share
SharedStrategies == NetworkStrategies \cup OrderingStrategies

\* a leaf value tested against one constant with one operator, by the leaf
\* check of the prefix tree and by the GiST check on a leaf page
InetLeafCall ==
    /\ bx.pc = "in" /\ ns.pc = "in"
    /\ \E leaf \in InetValues, query \in InetValues, strategy \in SharedStrategies :
          LET in == [leafDatum |-> leaf,
                     scankeys |-> << ScanKey(strategy.spg, query) >>]
          IN  ns' = [pc |-> "called", fn |-> "inet_spg_leaf_consistent",
                     in |-> in, out |-> inet_spg_leaf_consistent(in),
                     gist |-> inet_gist_consistent([key |-> leaf, leaf |-> TRUE],
                                                   query, strategy.gist)]
    /\ UNCHANGED <<bx, ps, gu, tr, se>>

CallNext ==
    \/ BoxInnerCall \/ BoxLeafCall \/ BoxPickSplitCall
    \/ InetInnerCall \/ InetPickSplitCall \/ InetLeafCall

SpecCall == CallInit /\ [][CallNext]_vars

C14_BoxWitness ==
    /\ bx.pc = "called" /\ bx.fn = "spg_box_quad_inner_consistent"
    /\ bx.in.allTheSame
    /\ Len(bx.in.scankeys) >= 1
    /\ spg_box_quad_inner_consistent(
           [bx.in EXCEPT !.allTheSame = FALSE, !.nNodes = 16,
                         !.traversalValue = NULL]).nodeNumbers = << >>
    /\ Len(bx.out.nodeNumbers) = bx.in.nNodes

\* the objects of the memory before the call are the same after it
MemoryKept ==
    /\ Len(bx.memAfter) >= Len(bx.mem)
    /\ \A a \in 1 .. Len(bx.mem) : bx.memAfter[a] = bx.mem[a]

\* every approved node has a traversal value, a pointer to an object that
\* was not in memory before the call and that no other node is given, and
\* the object is the region of the node within the region received
FreshRegionPerNode ==
    LET tv == bx.out.traversalValues
        rect_box == IF bx.in.traversalValue = NULL THEN initializeUnboundedBox
                    ELSE bx.mem[bx.in.traversalValue.addr]
    IN  /\ bx.out.hasTraversalValues
        /\ Len(tv) = Len(bx.out.nodeNumbers)
        /\ \A i \in 1 .. Len(tv) :
              /\ tv[i].addr \in (1 .. Len(bx.memAfter)) \ (1 .. Len(bx.mem))
              /\ \A j \in 1 .. Len(tv) : tv[j].addr = tv[i].addr => j = i
              /\ bx.memAfter[tv[i].addr] =
                     evalRectBox(rect_box, boxPointerToRangeBox(bx.in.prefixDatum),
                                 bx.out.nodeNumbers[i])

C15_ExampleCentroidIsUpperMedian ==
    (bx.pc = "called" /\ bx.fn = "spg_box_quad_picksplit")
        => /\ bx.out.hasPrefix
           /\ bx.out.prefixDatum = Box(2, 2, 3, 3)
           /\ bx.out.nNodes = 16
           /\ bx.out.leafTupleDatums = bx.in.datums
           /\ \A i \in 1 .. bx.in.nTuples : bx.out.mapTuplesToNodes[i] = 0

\* C15 witness: the call on the boxes in the order of the example
C15_Witness ==
    /\ bx.pc = "called" /\ bx.fn = "spg_box_quad_picksplit"
    /\ bx.in.datums = ExampleBoxes
    /\ bx.out.prefixDatum.low.x = 2

\* C15: on these four boxes spg_box_quad_picksplit returns the centroid
\* low.x = 1, high.x = 2, low.y = 1, high.y = 2 and maps the boxes to four
\* different quadrants.
C15_ExampleCentroidAndFourQuadrants ==
    (bx.pc = "called" /\ bx.fn = "spg_box_quad_picksplit")
        => /\ bx.out.prefixDatum = Box(1, 1, 2, 2)
           /\ Cardinality({ bx.out.mapTuplesToNodes[i] : i \in 1 .. bx.in.nTuples }) = 4

\* C16: when inet_spg_choose matches a value v to a node of a tuple whose
\* prefix has c bits, c is at most the prefix length of v and the node
\* number is in 0 .. 3, is odd exactly when c is below the address width of
\* the family and bit c of the address of v is 1, and is 2 or 3 exactly
\* when the prefix length of v exceeds c.
C16_NodeNumber ==
    (tr.pc = "chosen" /\ tr.in.hasPrefix /\ ~tr.in.allTheSame
        /\ tr.out.resultType = spgMatchNode)
        => LET v == tr.datum
               c == ip_bits(tr.in.prefixDatum)
               width == IF ip_family(v) = PGSQL_AF_INET THEN V4Bits ELSE V6Bits
           IN  /\ c <= ip_bits(v)
               /\ tr.out.nodeN \in 0 .. 3
               /\ (tr.out.nodeN % 2 = 1) <=> (c < width /\ ip_addr(v)[c + 1] = 1)
               /\ (tr.out.nodeN \in {2, 3}) <=> (ip_bits(v) > c)

\* C16 witness: the example at the address widths of the model, a value
\* whose prefix is one bit longer than that of the tuple and whose address
\* has 0 as the bit after the tuple's prefix, matched to node 2
C16_Witness ==
    /\ tr.pc = "chosen" /\ tr.in.hasPrefix /\ ~tr.in.allTheSame
    /\ tr.out.resultType = spgMatchNode
    /\ ip_bits(tr.in.prefixDatum) = 1
    /\ ip_addr(tr.in.prefixDatum)[1] = 1
    /\ ip_bits(tr.datum) = 2
    /\ ip_addr(tr.datum)[1] = 1 /\ ip_addr(tr.datum)[2] = 0
    /\ tr.out.nodeN = 2

\* C19: on a list of tuples with values of both families, in any order,
\* inet_spg_picksplit returns a split without prefix and with two nodes,
\* the IPv4 values in node 0 and the IPv6 values in node 1.
C19_BothFamiliesSplitByFamily ==
    (ns.pc = "called" /\ ns.fn = "inet_spg_picksplit"
        /\ \E i, j \in 1 .. ns.in.nTuples :
              ip_family(ns.in.datums[i]) # ip_family(ns.in.datums[j]))
        => /\ ~ns.out.hasPrefix
           /\ ns.out.nNodes = 2
           /\ \A i \in 1 .. ns.in.nTuples :
                 ns.out.mapTuplesToNodes[i] =
                     IF ip_family(ns.in.datums[i]) = PGSQL_AF_INET THEN 0 ELSE 1

\* the order that compares the whole addresses first and the prefix lengths
\* second: < 0, 0 or > 0
AddressFirstOrder(a1, a2) ==
    LET order == bitncmp(ip_addr(a1), ip_addr(a2), ip_maxbits(a1))
    IN  IF order # 0 THEN order ELSE ip_bits(a1) - ip_bits(a2)

\* what an ordering operator, given by its strategy number in the operator
\* class of the prefix tree, says of two values that compare as order
OrderingHolds(strategy, order) ==
    CASE strategy = RTLessStrategyNumber -> order < 0
      [] strategy = RTLessEqualStrategyNumber -> order <= 0
      [] strategy = RTEqualStrategyNumber -> order = 0
      [] strategy = RTGreaterEqualStrategyNumber -> order >= 0
      [] strategy = RTGreaterStrategyNumber -> order > 0

\* C20 as amended: for <, <=, =, >=, > and a value v and a constant q of the
\* same family, inet_spg_leaf_consistent and inet_gist_consistent on a leaf
\* page accept v exactly when v compares accordingly to q in the order of
\* network_cmp_internal: the network bits up to the shorter of the two
\* prefix lengths first, the prefix lengths second, the whole addresses last.
C20_LeafComparesAsNetworkCmp ==
    (ns.pc = "called" /\ ns.fn = "inet_spg_leaf_consistent"
        /\ ns.in.scankeys[1].sk_strategy \in { s.spg : s \in OrderingStrategies }
        /\ ip_family(ns.in.leafDatum) = ip_family(ns.in.scankeys[1].sk_argument))
        => LET v == ns.in.leafDatum
               key == ns.in.scankeys[1]
               expected == OrderingHolds(key.sk_strategy,
                                         network_cmp_internal(v, key.sk_argument))
           IN  /\ ns.out.result = expected
               /\ ~ns.out.recheck
               /\ ~ns.gist.error
               /\ ns.gist.result = expected

\* C20 witness: a value and a constant whose network bits agree up to the
\* shorter prefix, the value with the shorter prefix and the greater
\* address, accepted for <
C20_Witness ==
    /\ ns.pc = "called" /\ ns.fn = "inet_spg_leaf_consistent"
    /\ ip_family(ns.in.leafDatum) = ip_family(ns.in.scankeys[1].sk_argument)
    /\ ns.in.scankeys[1].sk_strategy = RTLessStrategyNumber
    /\ ip_bits(ns.in.leafDatum) < ip_bits(ns.in.scankeys[1].sk_argument)
    /\ AddressFirstOrder(ns.in.leafDatum, ns.in.scankeys[1].sk_argument) > 0
    /\ ns.out.result
    /\ ns.gist.result

\* C20: for <, <=, =, >=, > and a value v and a constant q of the same
\* family, inet_spg_leaf_consistent and inet_gist_consistent on a leaf page
\* accept v exactly when v compares accordingly to q in the order that
\* compares the addresses first and the prefix lengths second.
C20_LeafComparesAddressFirst ==
    (ns.pc = "called" /\ ns.fn = "inet_spg_leaf_consistent"
        /\ ns.in.scankeys[1].sk_strategy \in { s.spg : s \in OrderingStrategies }
        /\ ip_family(ns.in.leafDatum) = ip_family(ns.in.scankeys[1].sk_argument))
        => LET v == ns.in.leafDatum
               key == ns.in.scankeys[1]
               expected == OrderingHolds(key.sk_strategy,
                                         AddressFirstOrder(v, key.sk_argument))
           IN  /\ ns.out.result = expected
               /\ ns.gist.result = expected

\* C29: for an entry of an upper page, every constant and each of the ten
\* strategies of the operator class, inet_gist_consistent returns without an
\* error and the assertion that the entry is on a leaf page is not violated.
C29_UpperPageNeverReachesLeafChecks ==
    (gu.pc = "called" /\ gu.fn = "inet_gist_consistent" /\ ~gu.left.leaf
        /\ gu.strategy \in (GistStrategies \ {0}))
        => /\ gu.result.asserts
           /\ ~gu.result.error

\* C29 witness: a key of an upper page with prefix length 0 and of the
\* family of the constant, tested for <
C29_Witness ==
    /\ gu.pc = "called" /\ gu.fn = "inet_gist_consistent"
    /\ ~gu.left.leaf
    /\ ip_family(gu.left.key) = ip_family(gu.right)
    /\ ip_bits(gu.left.key) = 0
    /\ gu.strategy = INETSTRAT_LT
    /\ gu.result.result

(***************************************************************************)
(* The keys above a set of leaf keys of the GiST index.  The key of a page *)
(* is the union of its entries; when a value is inserted below a page the  *)
(* key of the page becomes the union of the old key and the key of the     *)
(* page below.  The state holds the leaf keys below an upper entry and the *)
(* key of that entry.                                                      *)
(***************************************************************************)
\* the number of leaf keys below the upper entry
MaxLeaves == 3

\* values stored in the index: of both families, networks and hosts
SearchLeafKeys == InetValues

SearchInit ==
    /\ gu = [pc |-> "grow", leaves |-> << >>, key |-> NULL, unions |-> 0]
    /\ bx = Idle /\ ps = Idle /\ ns = Idle /\ tr = Idle /\ se = Idle

\* the first leaf key: the upper entry gets the union of the leaf page
SearchFirstLeaf ==
    /\ gu.pc = "grow" /\ gu.leaves = << >>
    /\ \E v \in SearchLeafKeys :
          gu' = [gu EXCEPT !.leaves = << v >>, !.key = inet_gist_union(<< v >>),
                           !.unions = 1]
    /\ UNCHANGED <<bx, ps, ns, tr, se>>

\* one more leaf key below the entry: the key becomes the union of the old
\* key and the new one, the new one first or last in the entry vector
SearchAdjustKey ==
    /\ gu.pc = "grow" /\ Len(gu.leaves) \in 1 .. MaxLeaves - 1
    /\ \E v \in SearchLeafKeys, front \in BOOLEAN :
          gu' = [gu EXCEPT !.leaves = Append(@, v),
                           !.key = inet_gist_union(IF front THEN << v, gu.key >>
                                                   ELSE << gu.key, v >>),
                           !.unions = @ + 1]
    /\ UNCHANGED <<bx, ps, ns, tr, se>>

\* the page of the leaf keys is split and united again: the key becomes
\* the union of the unions of its two halves
SearchUnionOfUnions ==
    /\ gu.pc = "grow" /\ Len(gu.leaves) >= 2
    /\ \E n \in 1 .. Len(gu.leaves) - 1 :
          gu' = [gu EXCEPT
                   !.pc = "united",
                   !.key = inet_gist_union(
                               << inet_gist_union(SubSeq(gu.leaves, 1, n)),
                                  inet_gist_union(SubSeq(gu.leaves, n + 1, Len(gu.leaves))) >>)]
    /\ UNCHANGED <<bx, ps, ns, tr, se>>

SearchNext == SearchFirstLeaf \/ SearchAdjustKey \/ SearchUnionOfUnions

SpecSearch == SearchInit /\ [][SearchNext]_vars

\* the ten strategies of the operator class
SupportedStrategies == GistStrategies \ {0}

\* C27: for the leaf keys below an upper entry whose key was made of them by
\* inet_gist_union, every constant and each of the ten strategies: when
\* inet_gist_consistent accepts one of the leaf keys as a leaf entry, it
\* accepts the key of the upper entry as an entry of an upper page.
C27_GistSearchSound ==
    gu.leaves # << >> =>
        \A query \in InetValues, strategy \in SupportedStrategies :
            LET upper == inet_gist_consistent([key |-> gu.key, leaf |-> FALSE],
                                              query, strategy)
            IN  \A i \in 1 .. Len(gu.leaves) :
                    inet_gist_consistent([key |-> gu.leaves[i], leaf |-> TRUE],
                                         query, strategy).result
                        => /\ upper.result
                           /\ ~upper.error
                           /\ upper.asserts

C27_Witness ==
    /\ gu.pc = "united" /\ Len(gu.leaves) = MaxLeaves
    /\ ip_bits(gu.key) < ip_bits(gu.leaves[1])
    /\ \E query \in InetValues :
          /\ inet_gist_consistent([key |-> gu.leaves[1], leaf |-> TRUE],
                                  query, INETSTRAT_SUB).result
          /\ ~inet_gist_consistent([key |-> gu.leaves[2], leaf |-> TRUE],
                                   query, INETSTRAT_SUB).result
          /\ ip_bits(gu.key) <= ip_bits(query)
          /\ inet_gist_consistent([key |-> gu.key, leaf |-> FALSE],
                                  query, INETSTRAT_SUB).result

\* C30: on a leaf, for every value v, every constant q, of the same family or
\* not, and each of the ten operators the two operator classes share,
\* inet_gist_consistent on a leaf entry holding v and inet_spg_leaf_consistent
\* on v with the single key (q, operator) return the same boolean without an
\* error and both leave recheck false.
C30_LeafChecksAgree ==
    (ns.pc = "called" /\ ns.fn = "inet_spg_leaf_consistent")
        => /\ ~ns.gist.error
           /\ ns.gist.asserts
           /\ ns.out.result = ns.gist.result
           /\ ~ns.out.recheck /\ ~ns.gist.recheck

\* C30 witness: a value inside a constant network of its family, accepted by
\* both functions for <<
C30_Witness ==
    /\ ns.pc = "called" /\ ns.fn = "inet_spg_leaf_consistent"
    /\ ns.in.scankeys[1].sk_strategy = RTSubStrategyNumber
    /\ ip_family(ns.in.leafDatum) = ip_family(ns.in.scankeys[1].sk_argument)
    /\ ip_bits(ns.in.scankeys[1].sk_argument) > 0
    /\ ns.out.result
    /\ ns.gist.result

C30_OtherFamilyWitness ==
    /\ ns.pc = "called" /\ ns.fn = "inet_spg_leaf_consistent"
    /\ ns.in.scankeys[1].sk_strategy = RTLessStrategyNumber
    /\ ip_family(ns.in.leafDatum) # ip_family(ns.in.scankeys[1].sk_argument)
    /\ ns.out.result
    /\ ns.gist.result

\* the first n bits of two addresses are the same
SameLeadingBits(a, b, n) == \A i \in 1 .. n : ip_addr(a)[i] = ip_addr(b)[i]

\* C24: when inet_spg_choose splits the prefix of an inner tuple for a value
\* of the prefix's family, the new prefix is strictly shorter than the old
\* one and not longer than the value's prefix length, it agrees with the old
\* prefix and with the value on all of its bits, the old tuple goes under
\* node 2 or 3 of the new one, and the call for the value on the new tuple
\* matches another node than that.
C24_PrefixSplit ==
    (tr.pc = "chosen" /\ tr.afterSplit /\ tr.split.prefixHasPrefix)
        => LET new == tr.split.prefixPrefixDatum
               newbits == ip_bits(new)
           IN  /\ tr.old.hasPrefix
               /\ ip_family(new) = ip_family(tr.old.prefixDatum)
               /\ newbits < ip_bits(tr.old.prefixDatum)
               /\ newbits <= ip_bits(tr.datum)
               /\ SameLeadingBits(new, tr.old.prefixDatum, newbits)
               /\ SameLeadingBits(new, tr.datum, newbits)
               /\ \A i \in newbits + 1 .. ip_maxbits(new) : ip_addr(new)[i] = 0
               /\ tr.split.postfixNodeN \in {2, 3}
               /\ tr.split.postfixHasPrefix
               /\ tr.split.postfixPrefixDatum = tr.old.prefixDatum
               /\ tr.in = [hasPrefix |-> TRUE, prefixDatum |-> new, allTheSame |-> FALSE]
               /\ tr.out.resultType = spgMatchNode
               /\ tr.out.nodeN \in 0 .. 3
               /\ tr.out.nodeN # tr.split.postfixNodeN

\* C24 witness: a split to a prefix of one bit, the old tuple under node 3
\* and the value, with a longer prefix of its own, under node 2
C24_Witness ==
    /\ tr.pc = "chosen" /\ tr.afterSplit /\ tr.split.prefixHasPrefix
    /\ ip_bits(tr.split.prefixPrefixDatum) = 1
    /\ ip_bits(tr.datum) > 1
    /\ tr.split.postfixNodeN = 3
    /\ tr.out.nodeN = 2

\* C24 second witness: the value's prefix is the new prefix and the value
\* goes under node 0 or 1
C24_ShortValueWitness ==
    /\ tr.pc = "chosen" /\ tr.afterSplit /\ tr.split.prefixHasPrefix
    /\ ip_bits(tr.datum) = ip_bits(tr.split.prefixPrefixDatum)
    /\ ip_bits(tr.datum) < ip_bits(tr.old.prefixDatum)
    /\ tr.out.nodeN \in {0, 1}

\* C23: in a tree built by insertions no inner tuple without a prefix is
\* flagged all-the-same, so that neither inet_spg_choose nor
\* inet_spg_inner_consistent is called with hasPrefix false and allTheSame
\* true, and both nodes of every tuple without a prefix hold a value.
C23_NoPrefixNeverAllTheSame ==
    tr.pc = "tree" =>
        \A p \in TreeInnerPaths(tr.tree) :
            ~tr.tree[p].hasPrefix
                => /\ ~tr.tree[p].allTheSame
                   /\ tr.tree[p].nNodes = 2
                   /\ \A n \in {0, 1} : p \o << n >> \in DOMAIN tr.tree

(***************************************************************************)
(* The scans of the histogram by inet_hist_inclusion_selectivity and       *)
(* inet_hist_overlap_selectivity, one bucket at a time.  The state holds   *)
(* the variables of the loop before and after the last iteration.          *)
(***************************************************************************)
\* the values of the histogram
ScanValues == InetCallValues

ScanHistograms ==
    UNION { { h \in [1 .. n -> ScanValues] :
                \A i \in 1 .. n - 1 : network_cmp_internal(h[i], h[i + 1]) < 0 }
            : n \in 1 .. MaxHistogram }

\* ndistinct as the estimators pass it: stadistinct, a number of values, a
\* negative multiple of the number of rows, or 0
ScanDistinct == -1 .. 3

ScanInit ==
    /\ se = [pc |-> "start"]
    /\ bx = Idle /\ ps = Idle /\ ns = Idle /\ gu = Idle /\ tr = Idle

\* inet_hist_inclusion_selectivity up to its loop
ScanStartInclusion ==
    /\ se.pc = "start"
    /\ \E values \in ScanHistograms, query \in InetValues,
          ndistinct \in ScanDistinct, opr_order \in -2 .. 2 :
          se' = [pc |-> "loop", fn |-> "inet_hist_inclusion_selectivity",
                 values |-> values, query |-> query, ndistinct |-> ndistinct,
                 opr_order |-> opr_order, i |-> 0,
                 left_order |-> -255, right_order |-> -255,
                 before |-> Fin(0, 1), match |-> Fin(0, 1),
                 acc |-> [left |-> NULL, left_order |-> -255, match |-> Fin(0, 1)]]
    /\ UNCHANGED <<bx, ps, ns, gu, tr>>

\* inet_hist_overlap_selectivity up to its loop
ScanStartOverlap ==
    /\ se.pc = "start"
    /\ \E values \in ScanHistograms, query \in InetValues,
          ndistinct \in ScanDistinct, uninit \in UninitializedInts :
          se' = [pc |-> "loop", fn |-> "inet_hist_overlap_selectivity",
                 values |-> values, query |-> query, ndistinct |-> ndistinct,
                 opr_order |-> 0, i |-> 0,
                 left_order |-> 1, right_order |-> 1,
                 before |-> Fin(0, 1), match |-> Fin(0, 1),
                 acc |-> [right |-> NULL, right_min_bits |-> uninit, right_order |-> 0,
                          match |-> Fin(0, 1)]]
    /\ UNCHANGED <<bx, ps, ns, gu, tr>>

\* one iteration of the loop over the histogram
ScanBucket ==
    /\ se.pc = "loop"
    /\ se.i < Len(se.values)
    /\ LET right == se.values[se.i + 1]
           inclusion == se.fn = "inet_hist_inclusion_selectivity"
           acc == IF inclusion
                  THEN inet_hist_inclusion_step(se.acc, right, se.query, se.ndistinct,
                                                se.opr_order)
                  ELSE inet_hist_overlap_step(se.acc, right, se.query, se.ndistinct)
       IN  se' = [se EXCEPT
                    !.i = @ + 1,
                    !.left_order = IF se.i = 0 THEN @ ELSE se.right_order,
                    !.right_order = IF inclusion THEN acc.left_order ELSE acc.right_order,
                    !.before = se.match,
                    !.match = acc.match,
                    !.acc = acc]
    /\ UNCHANGED <<bx, ps, ns, gu, tr>>

ScanNext == ScanStartInclusion \/ ScanStartOverlap \/ ScanBucket

SpecScan == ScanInit /\ [][ScanNext]_vars

\* the last iteration found the constant matching the right edge of the
\* bucket and not the left one
RightEdgeOnly == se.pc = "loop" /\ se.i > 0 /\ se.right_order = 0 /\ se.left_order # 0

\* what the claim has a match of the right edge only add
RightEdgeWeight ==
    IF se.ndistinct > 0 THEN FDiv(Fin(1, 1), Fin(se.ndistinct, 1)) ELSE Fin(0, 1)

\* C25: in both scans of the histogram an iteration in which the constant
\* matches the right edge of the bucket only adds exactly 1/ndistinct to the
\* match total when ndistinct > 0, and nothing otherwise.
C25_RightEdgeAddsFraction ==
    RightEdgeOnly => se.match = FAdd(se.before, RightEdgeWeight)

\* the same for the scan of inet_hist_inclusion_selectivity alone
C25_InclusionAddsFraction ==
    (RightEdgeOnly /\ se.fn = "inet_hist_inclusion_selectivity")
        => se.match = FAdd(se.before, RightEdgeWeight)

\* a match of the right edge only with two distinct values in the column
C25_InclusionCase ==
    /\ RightEdgeOnly /\ se.fn = "inet_hist_inclusion_selectivity"
    /\ se.ndistinct = 2
    /\ se.match = FAdd(se.before, Fin(1, 2))

\* the column has statistics without a histogram and the clause compares it
\* with a constant that is not null
NoHistogramCase ==
    /\ se.pc = "estimated"
    /\ se.restriction = "const"
    /\ se.statsTuple # NULL
    /\ ~se.statsTuple.hasHistogram

\* the estimate from the most common values alone: the frequency of those
\* the constant matches, as a part of the rows that are not in the histogram
McvOnlyEstimate ==
    FDiv(se.mcv_selec, FAdd(se.statsTuple.stanullfrac, se.statsTuple.sumcommon))

\* C26: for a column with a statistics tuple without histogram and a constant
\* that is not null, inetinclusionsel and network_overlap_selectivity return
\* the estimate from the most common values if these have any frequency, and
\* otherwise the default, 0.01 for the overlap operator and 0.005 for the
\* inclusion operators.
C26_NoHistogramFallback ==
    (NoHistogramCase
        /\ se.estimator \in {"inetinclusionsel", "network_overlap_selectivity"})
        => IF FLess(Fin(0, 1), se.statsTuple.sumcommon)
           THEN se.selec \in {McvOnlyEstimate, se.mcv_selec}
           ELSE se.selec = IF se.operator = OID_INET_OVERLAP_OP THEN Fin(1, 100)
                           ELSE Fin(1, 200)

\* the same for inetinclusionsel alone
C26_InclusionFallback ==
    (NoHistogramCase /\ se.estimator = "inetinclusionsel")
        => IF FLess(Fin(0, 1), se.statsTuple.sumcommon)
           THEN se.selec = McvOnlyEstimate
           ELSE se.selec = IF se.operator = OID_INET_OVERLAP_OP THEN Fin(1, 100)
                           ELSE Fin(1, 200)

\* network_overlap_selectivity with most common values
C26_OverlapMcvOnly ==
    (NoHistogramCase /\ se.estimator = "network_overlap_selectivity"
        /\ FLess(Fin(0, 1), se.statsTuple.sumcommon))
        => se.selec \in {McvOnlyEstimate, se.mcv_selec}

\* inetinclusionsel returns the default of an inclusion operator
C26_InclusionDefaultCase ==
    /\ NoHistogramCase /\ se.estimator = "inetinclusionsel"
    /\ se.statsTuple.sumcommon = Fin(0, 1)
    /\ se.operator = OID_INET_CONTAINED_OP
    /\ se.selec = Fin(1, 200)

(***************************************************************************)
(* inet_gist_picksplit.  The entries are numbered from FirstOffsetNumber   *)
(* (1).  The addresses of the model are shorter than a byte, so that       *)
(* byte 0 of an address is the whole address and its lowest bit is the     *)
(* last bit of the address.                                                *)
(***************************************************************************)
\* body of the loop over the keys after the first
inet_gist_picksplitStep(acc, addr, tmp) ==
    LET other == ip_family(tmp) # acc.minfamily /\ ip_family(tmp) # acc.maxfamily
        minfamily == IF other /\ ip_family(tmp) < acc.minfamily THEN ip_family(tmp)
                     ELSE acc.minfamily
        maxfamily == IF other /\ ip_family(tmp) > acc.maxfamily THEN ip_family(tmp)
                     ELSE acc.maxfamily
        reset == IF other THEN 0 ELSE acc.commonbits
        capped == IF reset > ip_bits(tmp) THEN ip_bits(tmp) ELSE reset
    IN  [minfamily |-> minfamily,
         maxfamily |-> maxfamily,
         minbits |-> IF acc.minbits > ip_bits(tmp) THEN ip_bits(tmp) ELSE acc.minbits,
         commonbits |-> IF capped # 0 THEN bitncommon(addr, ip_addr(tmp), capped)
                        ELSE capped]

RECURSIVE inet_gist_picksplitLoop(_, _, _, _)
inet_gist_picksplitLoop(acc, addr, ent, i) ==
    IF i > Len(ent) THEN acc
    ELSE inet_gist_picksplitLoop(inet_gist_picksplitStep(acc, addr, ent[i]),
                                 addr, ent, i + 1)

\* the bit count of the two unions left at the number of common bits
SplitBitsNeverBumped(commonbits, minbits) == commonbits

\* the bit count of the two unions when all keys are of one family
SplitBits(commonbits, minbits) ==
    IF commonbits # minbits THEN commonbits + 1 ELSE commonbits

\* only the keys of the smallest family go to the left side
SplitLeftOfMinFamily(family, minfamily, maxfamily) == family = minfamily

\* the side of a key when the keys are of more than one family: every key
\* that is not of the greatest family goes to the left side
SplitLeftByFamily(family, minfamily, maxfamily) == family # maxfamily

\* the entries i of ent for which test(i) holds, in ascending order
SplitSide(ent, test(_)) == SelectSeq([i \in 1 .. Len(ent) |-> i], test)

\* shifted is the value of 0xFF >> -1, which the code evaluates when the bit
\* count of the unions is 0: the bits of byte 0 it leaves set
inet_gist_picksplit(ent, shifted) ==
    LET first == ent[1]
        acc == inet_gist_picksplitLoop(
                   [minfamily |-> ip_family(first), maxfamily |-> ip_family(first),
                    minbits |-> ip_bits(first), commonbits |-> ip_bits(first)],
                   ip_addr(first), ent, 2)
        zero(family) == [i \in 1 .. FamilyBits(family) |-> 0]
    IN
    IF acc.minfamily # acc.maxfamily
    THEN LET goesLeft(i) == SplitLeftByFamily(ip_family(ent[i]), acc.minfamily,
                                              acc.maxfamily)
             goesRight(i) == ~goesLeft(i)
             sentinel == \E i \in 1 .. Len(ent) :
                             goesLeft(i) /\ ip_family(ent[i]) # acc.minfamily
         IN  [spl_left |-> SplitSide(ent, goesLeft),
              spl_right |-> SplitSide(ent, goesRight),
              spl_ldatum |-> Inet(IF sentinel THEN 0 ELSE acc.minfamily, 0,
                                  zero(acc.minfamily)),
              spl_rdatum |-> Inet(acc.maxfamily, 0, zero(acc.maxfamily)),
              asserts |-> acc.minfamily < acc.maxfamily,
              cannotSplit |-> FALSE]
    ELSE LET commonbits == SplitBits(acc.commonbits, acc.minbits)
             width == FamilyBits(acc.minfamily)
             addr == ip_addr(first)
             \* memcpy of (commonbits + 6) / 8 bytes and the partial byte cleaned
             copied == [i \in 1 .. width |-> IF i <= commonbits - 1 THEN addr[i] ELSE 0]
             left == IF commonbits = 0
                     THEN [i \in 1 .. width |-> IF copied[i] = 1 /\ shifted[i] = 0
                                                THEN 1 ELSE 0]
                     ELSE copied
             \* 1 << ((8 - (commonbits % 8)) % 8) in byte (commonbits - 1) / 8
             lastbit == IF commonbits = 0 THEN Min(8, width) ELSE commonbits
             right == [left EXCEPT ![lastbit] = 1]
             goesLeft(i) == bitncmp(right, ip_addr(ent[i]), commonbits) # 0
             goesRight(i) == ~goesLeft(i)
         IN  [spl_left |-> SplitSide(ent, goesLeft),
              spl_right |-> SplitSide(ent, goesRight),
              spl_ldatum |-> Inet(acc.minfamily, commonbits, left),
              spl_rdatum |-> Inet(acc.maxfamily, commonbits, right),
              asserts |-> acc.minfamily > 0,
              cannotSplit |-> acc.commonbits = acc.minbits]

(***************************************************************************)
(* A page of the GiST index that has got one key more than it holds, and   *)
(* the call of inet_gist_picksplit for it.                                 *)
(***************************************************************************)
\* the keys of a page: IPv4 values, IPv6 networks, and the key with
\* family 0 of a page below with both families
SplitKeys ==
    { v \in InetValues :
        \/ ip_family(v) = PGSQL_AF_INET
        \/ \A i \in ip_bits(v) + 1 .. V6Bits : ip_addr(v)[i] = 0 }
    \cup { Inet(0, 0, [i \in 1 .. V6Bits |-> 0]) }

\* the values 0xFF >> -1 may have: no bit or every bit of the byte
ShiftResults == { [i \in 1 .. V6Bits |-> b] : b \in {0, 1} }

SplitInit ==
    /\ gu = [pc |-> "page", vector |-> << >>]
    /\ bx = Idle /\ ps = Idle /\ ns = Idle /\ tr = Idle /\ se = Idle

\* one more key on the page, up to one more than the page holds
SplitAddEntry ==
    /\ gu.pc = "page"
    /\ Len(gu.vector) <= MaxEntries
    /\ \E key \in SplitKeys : gu' = [gu EXCEPT !.vector = Append(@, key)]
    /\ UNCHANGED <<bx, ps, ns, tr, se>>

\* the page is split
SplitPick ==
    /\ gu.pc = "page"
    /\ Len(gu.vector) >= 2
    /\ \E shifted \in ShiftResults :
          gu' = [pc |-> "split", vector |-> gu.vector,
                 out |-> inet_gist_picksplit(gu.vector, shifted)]
    /\ UNCHANGED <<bx, ps, ns, tr, se>>

SplitNext == SplitAddEntry \/ SplitPick

SpecSplit == SplitInit /\ [][SplitNext]_vars

\* the families of the keys of the page
SplitFamilies == { ip_family(gu.vector[i]) : i \in 1 .. Len(gu.vector) }

\* every entry is in exactly one of the two lists
SplitIsPartition ==
    LET l == gu.out.spl_left
        r == gu.out.spl_right
        in(list) == { list[k] : k \in 1 .. Len(list) }
    IN  /\ in(l) \cup in(r) = 1 .. Len(gu.vector)
        /\ in(l) \cap in(r) = {}
        /\ Len(l) + Len(r) = Len(gu.vector)

\* C22: when the keys are of two or more families, every entry is on
\* exactly one side, the entries of one family are all on the same side,
\* both sides hold an entry, both unions have prefix length 0, the family of
\* the left union is that of all left entries, or 0 when the left side holds
\* more than one family, and the family of the right union is that of every
\* right entry.
C22_SplitByFamily ==
    (gu.pc = "split" /\ Cardinality(SplitFamilies) >= 2)
        => LET out == gu.out
               l == { out.spl_left[k] : k \in 1 .. Len(out.spl_left) }
               r == { out.spl_right[k] : k \in 1 .. Len(out.spl_right) }
               fl == { ip_family(gu.vector[i]) : i \in l }
               fr == { ip_family(gu.vector[i]) : i \in r }
           IN  /\ SplitIsPartition
               /\ fl \cap fr = {}
               /\ l # {} /\ r # {}
               /\ ip_bits(out.spl_ldatum) = 0 /\ ip_bits(out.spl_rdatum) = 0
               /\ \A i \in 1 .. Len(ip_addr(out.spl_ldatum)) : ip_addr(out.spl_ldatum)[i] = 0
               /\ \A i \in 1 .. Len(ip_addr(out.spl_rdatum)) : ip_addr(out.spl_rdatum)[i] = 0
               /\ IF Cardinality(fl) > 1 THEN ip_family(out.spl_ldatum) = 0
                  ELSE fl = {ip_family(out.spl_ldatum)}
               /\ fr = {ip_family(out.spl_rdatum)}
               /\ out.asserts

\* C22 witness: keys of three families, two of them on the left side
C22_Witness ==
    /\ gu.pc = "split"
    /\ Cardinality(SplitFamilies) = 3
    /\ Len(gu.out.spl_left) = 2
    /\ ip_family(gu.vector[gu.out.spl_left[2]]) = PGSQL_AF_INET
    /\ ip_family(gu.out.spl_ldatum) = 0
    /\ ip_family(gu.out.spl_rdatum) = PGSQL_AF_INET6

\* the keys of the page are all of one address family
SplitOneFamily ==
    /\ gu.pc = "split"
    /\ \E f \in {PGSQL_AF_INET, PGSQL_AF_INET6} : SplitFamilies = {f}

\* the shortest prefix length of the keys of the page
SplitMinBits ==
    CHOOSE b \in { ip_bits(gu.vector[i]) : i \in 1 .. Len(gu.vector) } :
        \A i \in 1 .. Len(gu.vector) : b <= ip_bits(gu.vector[i])

\* the number of leading bits all keys of the page share, at most the
\* shortest prefix length
SplitCommonBits ==
    CHOOSE c \in 0 .. SplitMinBits :
        /\ \A i \in 1 .. Len(gu.vector) :
               SameLeadingBits(gu.vector[1], gu.vector[i], c)
        /\ c < SplitMinBits
               => \E i \in 1 .. Len(gu.vector) :
                      ip_addr(gu.vector[i])[c + 1] # ip_addr(gu.vector[1])[c + 1]

\* C28: when the keys are of one family and share c leading bits, fewer than
\* the shortest prefix length, every entry is in exactly one of the two
\* lists, both lists hold an entry, both unions have prefix length c + 1 and
\* the first c bits the keys share, the left union has bit c clear and the
\* right union has it set, the bits after it are clear, and every entry
\* agrees with the union of its side on the first c + 1 bits.
C28_SplitByNextBit ==
    (SplitOneFamily /\ SplitCommonBits < SplitMinBits)
        => LET out == gu.out
               c == SplitCommonBits
               agrees(list, union) ==
                   \A k \in 1 .. Len(list) :
                       SameLeadingBits(gu.vector[list[k]], union, c + 1)
           IN  /\ SplitIsPartition
               /\ out.spl_left # << >> /\ out.spl_right # << >>
               /\ ip_family(out.spl_ldatum) = ip_family(gu.vector[1])
               /\ ip_family(out.spl_rdatum) = ip_family(gu.vector[1])
               /\ ip_bits(out.spl_ldatum) = c + 1
               /\ ip_bits(out.spl_rdatum) = c + 1
               /\ SameLeadingBits(out.spl_ldatum, gu.vector[1], c)
               /\ SameLeadingBits(out.spl_rdatum, gu.vector[1], c)
               /\ ip_addr(out.spl_ldatum)[c + 1] = 0
               /\ ip_addr(out.spl_rdatum)[c + 1] = 1
               /\ \A i \in c + 2 .. Len(ip_addr(out.spl_ldatum)) :
                      ip_addr(out.spl_ldatum)[i] = 0 /\ ip_addr(out.spl_rdatum)[i] = 0
               /\ agrees(out.spl_left, out.spl_ldatum)
               /\ agrees(out.spl_right, out.spl_rdatum)
               /\ out.asserts
               /\ ~out.cannotSplit

\* C28 witness: three IPv6 keys that share their first bit and differ in
\* the second, two of them on the right side
C28_Witness ==
    /\ SplitOneFamily
    /\ SplitCommonBits = 1 /\ SplitMinBits = 2
    /\ Len(gu.vector) = 3
    /\ Len(gu.out.spl_left) = 1
    /\ Len(gu.out.spl_right) = 2
    /\ ip_bits(gu.out.spl_rdatum) = 2

\* C21: when the keys are of one family and the leading bits they all share
\* are as many as the shortest prefix length, inet_gist_picksplit does not
\* fail, the unions get one bit more than the keys share, and the entries
\* are put on the two sides by the value of that next bit.
C21_CommonNetworkSplitByNextBit ==
    (SplitOneFamily /\ SplitCommonBits = SplitMinBits)
        => LET out == gu.out
               c == SplitCommonBits
               width == Len(ip_addr(gu.vector[1]))
               nextbit(i) == IF c < width THEN ip_addr(gu.vector[i])[c + 1] ELSE 0
           IN  /\ out.asserts
               /\ SplitIsPartition
               /\ ip_bits(out.spl_ldatum) = c + 1
               /\ ip_bits(out.spl_rdatum) = c + 1
               /\ \A k \in 1 .. Len(out.spl_left) : nextbit(out.spl_left[k]) = 0
               /\ \A k \in 1 .. Len(out.spl_right) : nextbit(out.spl_right[k]) = 1

\* what the code does in that case: the unions keep the bit count of the
\* common bits, and every entry is on the side the last common bit tells
C21_CommonNetworkOnOneSide ==
    (SplitOneFamily /\ SplitCommonBits = SplitMinBits)
        => LET out == gu.out
               c == SplitCommonBits
           IN  /\ out.asserts
               /\ out.cannotSplit
               /\ SplitIsPartition
               /\ ip_bits(out.spl_ldatum) = c
               /\ ip_bits(out.spl_rdatum) = c
               /\ out.spl_left = << >> \/ out.spl_right = << >>
               /\ out.spl_left = << >>
                      <=> (c = 0 \/ ip_addr(gu.vector[1])[c] = 1)

\* the right union of a page of keys of prefix length 0: a set bit after
\* the end of its prefix
C21_StrayBitCase ==
    /\ SplitOneFamily
    /\ SplitMinBits = 0
    /\ ip_bits(gu.out.spl_rdatum) = 0
    /\ \E i \in 1 .. Len(ip_addr(gu.out.spl_rdatum)) : ip_addr(gu.out.spl_rdatum)[i] = 1

====
